---- MODULE Spec2Model ----
(***************************************************************************)
(* A model of prmpt (formerly curly): the injection parser and file writer *)
(* (src/src/prmpt/inject_code.rs), the legacy single-loop injector         *)
(* (src/src/curly/inject_code.rs), the repository serializer               *)
(* (src/src/curly/run.rs, src/src/curly/utils.rs) and the legacy           *)
(* serializer with parallel renders (src/src/lib.rs).                      *)
(*                                                                         *)
(* Text is modelled as a sequence of one-character strings; a path on disk *)
(* is a sequence of components, each a sequence of characters.             *)
(***************************************************************************)
EXTENDS Integers, Sequences, FiniteSets, TLC

VARIABLES
    impl,                 \* which Injector runs: "prmpt" or "curly"
    env,                  \* the arguments of inject: repo_path, readable input;
                          \* which generator runs and which files cannot be read
    cfg,                  \* the Config of Generator::run
    tree,                 \* the source tree Generator::run serializes
    output,               \* the document Generator::run has built so far
    fi,                   \* index of the walked file being rendered
    error_count,          \* HashMap: directory -> number of failed files
    errors,               \* the summary list Generator::run returns
    jobs,                 \* the parallel renders of lib.rs: file -> stage
    pc,                   \* position of the run
    result,               \* "running", "ok", "err" (Err returned) or "panic"
    doc,                  \* the lines of the input document consumed so far
    state,                \* ParserState / in_code_block
    current_target_path,  \* Option<String>: None or Some(p)
    current_code_block,   \* String accumulated inside the fence
    blocks,               \* Vec<CodeBlock> emitted by the parser
    panicked,             \* TRUE once a slice index panicked
    fs,                   \* the file system: [dirs, links, files]
    bi,                   \* index of the block being injected
    cur,                  \* the block being injected and its resolved location
    log                   \* what was logged per block (error! / info!)

parserVars == <<doc, state, current_target_path,
                current_code_block, blocks, panicked>>

\* number of lines consumed so far
nread == Len(doc)

\* the input line being handled (<<>> before the first)
line == IF doc = <<>> THEN <<>> ELSE doc[Len(doc)]

writerVars == <<fs, bi, cur, log>>

genVars == <<cfg, tree, output, fi, error_count, errors, jobs>>

vars == <<impl, env, pc, result, genVars, parserVars, writerVars>>

-----------------------------------------------------------------------------
(* Bounds of the model *)

\* longest free-form body of a generated input line
MaxBody == 2

\* number of lines of an input document
MaxLines == 4

\* the length of a document of the family "blocks"
MaxBlockLines == 5

\* number of lines that follow the probe line of a probe document
MaxTail == 3

-----------------------------------------------------------------------------
(* Rust's str primitives over sequences of characters *)

\* char::is_whitespace restricted to the characters of the model
WhiteSpace == {" ", "\t", "\n"}

RECURSIVE TrimStart(_)
TrimStart(s) ==
    IF s = <<>> THEN s
    ELSE IF Head(s) \in WhiteSpace THEN TrimStart(Tail(s)) ELSE s

RECURSIVE TrimEnd(_)
TrimEnd(s) ==
    IF s = <<>> THEN s
    ELSE IF s[Len(s)] \in WhiteSpace THEN TrimEnd(SubSeq(s, 1, Len(s) - 1)) ELSE s

Trim(s) == TrimEnd(TrimStart(s))

StartsWith(s, p) == Len(s) >= Len(p) /\ SubSeq(s, 1, Len(p)) = p

EndsWith(s, p) == Len(s) >= Len(p) /\ SubSeq(s, Len(s) - Len(p) + 1, Len(s)) = p

Contains(s, c) == \E i \in 1..Len(s) : s[i] = c

\* &s[a..b] with 0-based half-open byte indices; the caller checks a <= b
Slice(s, a, b) == SubSeq(s, a + 1, b)

\* str::split_whitespace: the maximal whitespace-free runs, in order
RECURSIVE SplitWhitespace(_)
SplitWhitespace(s) ==
    LET t == TrimStart(s) IN
    IF t = <<>> THEN <<>>
    ELSE LET n == IF \E i \in 1..Len(t) : t[i] \in WhiteSpace
                  THEN (CHOOSE i \in 1..Len(t) :
                            /\ t[i] \in WhiteSpace
                            /\ \A j \in 1..(i - 1) : t[j] \notin WhiteSpace) - 1
                  ELSE Len(t)
         IN <<SubSeq(t, 1, n)>> \o SplitWhitespace(SubSeq(t, n + 1, Len(t)))

None == <<>>
Some(v) == <<v>>

-----------------------------------------------------------------------------
(* Literals of the wire format *)

\* the backtick character U+0060 (a TLA+ string literal cannot hold it)
BT == "BT"

Delimiter == <<BT, BT, BT>>
HeadingOpen == <<"#", "#", "#", " ", BT>>
BoldOpen == <<"*", "*", BT>>
BoldClose == <<BT, "*", "*">>
Backtick == <<BT>>

-----------------------------------------------------------------------------
(* src/src/prmpt/inject_code.rs: helpers *)

\* extract_path slices without checking that the markers do not overlap
extract_path_panics(input) ==
    LET t == Trim(input) IN
    IF StartsWith(t, HeadingOpen) /\ EndsWith(t, Backtick) THEN 5 > Len(t) - 1
    ELSE IF StartsWith(t, BoldOpen) /\ EndsWith(t, BoldClose) THEN 3 > Len(t) - 3
    ELSE IF StartsWith(t, Backtick) /\ EndsWith(t, Backtick) THEN 1 > Len(t) - 1
    ELSE FALSE

\* extract_path without the bare backtick convention
extract_path_two_forms(input) ==
    LET t == Trim(input) IN
    IF StartsWith(t, HeadingOpen) /\ EndsWith(t, Backtick) THEN Slice(t, 5, Len(t) - 1)
    ELSE IF StartsWith(t, BoldOpen) /\ EndsWith(t, BoldClose) THEN Slice(t, 3, Len(t) - 3)
    ELSE t

extract_path(input) ==
    LET t == Trim(input) IN
    IF StartsWith(t, HeadingOpen) /\ EndsWith(t, Backtick) THEN Slice(t, 5, Len(t) - 1)
    ELSE IF StartsWith(t, BoldOpen) /\ EndsWith(t, BoldClose) THEN Slice(t, 3, Len(t) - 3)
    ELSE IF StartsWith(t, Backtick) /\ EndsWith(t, Backtick) THEN Slice(t, 1, Len(t) - 1)
    ELSE t

\* extract_path_from_fence taking the first token instead of the last
extract_path_from_fence_first(ln, delimiter) ==
    LET t == TrimStart(ln) IN
    IF ~StartsWith(t, delimiter) THEN None
    ELSE LET remainder == Trim(SubSeq(t, Len(delimiter) + 1, Len(t)))
             tokens == SplitWhitespace(remainder)
         IN IF remainder = <<>> THEN None
            ELSE IF Len(tokens) = 1
                 THEN IF Contains(tokens[1], "/") \/ Contains(tokens[1], ".")
                      THEN Some(tokens[1]) ELSE None
                 ELSE Some(tokens[1])

extract_path_from_fence(ln, delimiter) ==
    LET t == TrimStart(ln) IN
    IF ~StartsWith(t, delimiter) THEN None
    ELSE LET remainder == Trim(SubSeq(t, Len(delimiter) + 1, Len(t)))
             tokens == SplitWhitespace(remainder)
         IN IF remainder = <<>> THEN None
            ELSE IF Len(tokens) = 1
                 THEN IF Contains(tokens[1], "/") \/ Contains(tokens[1], ".")
                      THEN Some(tokens[1]) ELSE None
                 ELSE Some(tokens[Len(tokens)])

is_path_line(ln) ==
    \/ StartsWith(TrimStart(ln), HeadingOpen) /\ EndsWith(TrimEnd(ln), Backtick)
    \/ StartsWith(TrimStart(ln), BoldOpen) /\ EndsWith(TrimEnd(ln), BoldClose)
    \/ StartsWith(TrimStart(ln), Backtick) /\ EndsWith(TrimEnd(ln), Backtick) /\ Len(ln) > 3

IsFenceLine(ln) == StartsWith(TrimStart(ln), Delimiter)

\* CodeBlock { target_path, content }
CodeBlock(path, content) == [target_path |-> path, content |-> content]

\* InjectionParser::new
NewParser ==
    [state |-> "ExpectingPath", current_target_path |-> None,
     current_code_block |-> <<>>, blocks |-> <<>>, panicked |-> FALSE]

\* finalize_current_block testing the buffer without trimming it
finalize_untrimmed_test(p) ==
    LET emit == /\ p.current_target_path # None
                /\ p.current_code_block # <<>>
    IN [p EXCEPT
          !.blocks = IF emit
                     THEN Append(@, CodeBlock(p.current_target_path[1],
                                              TrimEnd(p.current_code_block)))
                     ELSE @,
          !.current_target_path = None,
          !.current_code_block = <<>>]

\* InjectionParser::finalize_current_block
finalize_current_block(p) ==
    LET emit == /\ p.current_target_path # None
                /\ Trim(p.current_code_block) # <<>>
    IN [p EXCEPT
          !.blocks = IF emit
                     THEN Append(@, CodeBlock(p.current_target_path[1],
                                              TrimEnd(p.current_code_block)))
                     ELSE @,
          !.current_target_path = None,
          !.current_code_block = <<>>]

\* the "inline file path" test of the last branch of ExpectingPath
IsInlinePath(trimmed) ==
    /\ trimmed # <<>>
    /\ ~StartsWith(trimmed, <<"#">>)
    /\ ~Contains(trimmed, " ")

\* parse looking for a path announcement inside a block as well
parse_line_announcing(p, ln) ==
    IF IsFenceLine(ln)
    THEN IF p.state = "ExpectingPath"
         THEN LET f == extract_path_from_fence(ln, Delimiter) IN
              [p EXCEPT !.current_target_path = IF f # None THEN f ELSE @,
                        !.state = "InCodeBlock",
                        !.current_code_block = <<>>]
         ELSE [finalize_current_block(p) EXCEPT !.state = "ExpectingPath"]
    ELSE IF is_path_line(ln)
    THEN IF extract_path_panics(ln)
         THEN [p EXCEPT !.panicked = TRUE]
         ELSE IF Trim(extract_path(ln)) # <<>>
              THEN [p EXCEPT !.current_target_path = Some(extract_path(ln))]
              ELSE [p EXCEPT !.current_target_path = None]
    ELSE IF p.state = "ExpectingPath"
    THEN IF IsInlinePath(Trim(ln))
         THEN [p EXCEPT !.current_target_path = Some(Trim(ln))]
         ELSE p
    ELSE [p EXCEPT !.current_code_block = @ \o ln \o <<"\n">>]

\* one iteration of the loop of InjectionParser::parse over `ln`
parse_line(p, ln) ==
    IF p.state = "ExpectingPath"
    THEN IF IsFenceLine(ln)
         THEN LET f == extract_path_from_fence(ln, Delimiter) IN
              [p EXCEPT !.current_target_path = IF f # None THEN f ELSE @,
                        !.state = "InCodeBlock",
                        !.current_code_block = <<>>]
         ELSE IF is_path_line(ln)
         THEN IF extract_path_panics(ln)
              THEN [p EXCEPT !.panicked = TRUE]
              ELSE IF Trim(extract_path(ln)) # <<>>
                   THEN [p EXCEPT !.current_target_path = Some(extract_path(ln))]
                   ELSE [p EXCEPT !.current_target_path = None]
         ELSE IF IsInlinePath(Trim(ln))
              THEN [p EXCEPT !.current_target_path = Some(Trim(ln))]
              ELSE p
    ELSE IF IsFenceLine(ln)
         THEN [finalize_current_block(p) EXCEPT !.state = "ExpectingPath"]
         ELSE [p EXCEPT !.current_code_block = @ \o ln \o <<"\n">>]

\* the tail of InjectionParser::parse: a file that ends inside a fence
parse_eof(p) ==
    IF p.state = "InCodeBlock" THEN finalize_current_block(p) ELSE p

-----------------------------------------------------------------------------
(* src/src/curly/inject_code.rs: the legacy single-loop injector.  Its      *)
(* extract_path and extract_path_from_fence are textually those above.     *)

\* one iteration of `while let Some(line) = lines.next()`; a block handed to
\* the file-writing code of the closing branch is appended to `blocks`
legacy_line(p, ln) ==
    LET in_code_block == p.state = "InCodeBlock" IN
    IF ~in_code_block /\ is_path_line(ln)
    THEN IF extract_path_panics(ln)
         THEN [p EXCEPT !.panicked = TRUE]
         ELSE IF Trim(extract_path(ln)) # <<>>
              THEN [p EXCEPT !.current_target_path = Some(extract_path(ln))]
              ELSE [p EXCEPT !.current_target_path = None]
    ELSE IF IsFenceLine(ln)
    THEN IF ~in_code_block
         THEN LET f == extract_path_from_fence(ln, Delimiter) IN
              [p EXCEPT !.current_target_path = IF f # None THEN f ELSE @,
                        !.state = "InCodeBlock",
                        !.current_code_block = <<>>]
         ELSE IF p.current_target_path # None
              THEN IF p.current_code_block = <<>>
                   THEN [p EXCEPT !.state = "ExpectingPath",
                                  !.current_target_path = None]
                   ELSE [p EXCEPT !.state = "ExpectingPath",
                                  !.blocks = Append(@, CodeBlock(p.current_target_path[1],
                                                        TrimEnd(p.current_code_block))),
                                  !.current_code_block = <<>>,
                                  !.current_target_path = None]
              ELSE [p EXCEPT !.state = "ExpectingPath"]
    ELSE IF ~in_code_block
    THEN IF IsInlinePath(Trim(ln)) /\ ~StartsWith(Trim(ln), Delimiter)
         THEN [p EXCEPT !.current_target_path = Some(Trim(ln))]
         ELSE p
    ELSE [p EXCEPT !.current_code_block = @ \o ln \o <<"\n">>]

-----------------------------------------------------------------------------
(* std::path and std::fs over a small file system.  A canonical path is the *)
(* sequence of its components below "/"; fs = [dirs, links, files].        *)

DotDot == <<".", ".">>

RECURSIVE SplitOn(_, _)
SplitOn(s, c) ==
    IF ~Contains(s, c) THEN <<s>>
    ELSE LET i == CHOOSE k \in 1..Len(s) :
                      s[k] = c /\ \A j \in 1..(k - 1) : s[j] # c
         IN <<SubSeq(s, 1, i - 1)>> \o SplitOn(SubSeq(s, i + 1, Len(s)), c)

IsKeptComponent(x) == x # <<>> /\ x # <<".">>

\* Path::components: empty and "." components are normalized away
Components(str) == SelectSeq(SplitOn(str, "/"), IsKeptComponent)

IsAbsolute(str) == StartsWith(str, <<"/">>)

\* PathBuf::join: an absolute argument replaces the base
Join(base, str) == IF IsAbsolute(str) THEN Components(str) ELSE base \o Components(str)

\* Path::file_name: None when the path is "/" or ends in ".."
file_name(path) ==
    IF path = <<>> \/ path[Len(path)] = DotDot THEN None ELSE Some(path[Len(path)])

\* Path::parent
Parent(path) == IF path = <<>> THEN <<>> ELSE SubSeq(path, 1, Len(path) - 1)

\* Path::starts_with: component-wise prefix
PathStartsWith(path, base) ==
    Len(path) >= Len(base) /\ SubSeq(path, 1, Len(base)) = base

\* fs::canonicalize of the path that reads `comps` from directory `at`
RECURSIVE Canon(_, _, _)
Canon(f, at, comps) ==
    IF comps = <<>> THEN [ok |-> TRUE, path |-> at]
    ELSE LET c == Head(comps)
             next == Append(at, c)
         IN IF c = DotDot THEN Canon(f, Parent(at), Tail(comps))
            ELSE IF next \in DOMAIN f.links THEN Canon(f, f.links[next], Tail(comps))
            ELSE IF next \in f.dirs THEN Canon(f, next, Tail(comps))
            ELSE IF next \in DOMAIN f.files /\ Tail(comps) = <<>>
                 THEN [ok |-> TRUE, path |-> next]
            ELSE [ok |-> FALSE, path |-> <<>>]

canonicalize(f, path) == Canon(f, <<>>, path)

\* fs::create_dir_all: every missing directory on the way is created where
\* the operating system resolves it ("..": the parent, a symlink: its target)
RECURSIVE MkdirAll(_, _, _)
MkdirAll(f, at, comps) ==
    IF comps = <<>> THEN [ok |-> TRUE, fs |-> f]
    ELSE LET c == Head(comps)
             next == Append(at, c)
         IN IF c = DotDot THEN MkdirAll(f, Parent(at), Tail(comps))
            ELSE IF next \in DOMAIN f.links THEN MkdirAll(f, f.links[next], Tail(comps))
            ELSE IF next \in f.dirs THEN MkdirAll(f, next, Tail(comps))
            ELSE IF next \in DOMAIN f.files THEN [ok |-> FALSE, fs |-> f]
            ELSE MkdirAll([f EXCEPT !.dirs = @ \cup {next}], next, Tail(comps))

create_dir_all(f, path) == MkdirAll(f, <<>>, path)

\* a function with one more (or one replaced) entry
Put(fn, k, v) == [x \in DOMAIN fn \cup {k} |-> IF x = k THEN v ELSE fn[x]]

\* a function without the entry for k
Drop(fn, k) == [x \in DOMAIN fn \ {k} |-> fn[x]]

\* format!(".{}.tmp.{}", target_filename, random_string); "~" stands for the
\* ".tmp." marker followed by the random suffix
temp_filename(name) == <<".">> \o name \o <<"~">>

-----------------------------------------------------------------------------
(* Text helpers of the serializer *)

\* the characters of a string literal, in order
Chars(str) == [i \in 1..Len(str) |-> SubSeq(str, i, i)]

\* the box-drawing characters U+251C, U+2514, U+2500 and U+2502
TEE == "TEE"
ELBOW == "ELBOW"
DASH == "DASH"
PIPE == "PIPE"

\* the position of the first c in s (s contains c)
IndexOf(s, c) == CHOOSE k \in 1..Len(s) : s[k] = c /\ \A j \in 1..(k - 1) : s[j] # c

\* the position of the last c in s (s contains c)
LastIndexOf(s, c) ==
    CHOOSE k \in 1..Len(s) : s[k] = c /\ \A j \in (k + 1)..Len(s) : s[j] # c

\* str::lines: split at "\n", a trailing "\r" of a line is dropped, and so
\* is the empty piece after a final "\n"
RECURSIVE Lines(_)
Lines(s) ==
    LET StripCr(l) == IF EndsWith(l, <<"\r">>) THEN SubSeq(l, 1, Len(l) - 1) ELSE l IN
    IF s = <<>> THEN <<>>
    ELSE IF Contains(s, "\n")
         THEN <<StripCr(SubSeq(s, 1, IndexOf(s, "\n") - 1))>>
                  \o Lines(SubSeq(s, IndexOf(s, "\n") + 1, Len(s)))
         ELSE <<StripCr(s)>>

\* Path::to_string_lossy of a relative path: the names joined by "/"
RECURSIVE RelPathStr(_)
RelPathStr(rel) ==
    IF rel = <<>> THEN <<>>
    ELSE IF Len(rel) = 1 THEN rel[1]
    ELSE rel[1] \o <<"/">> \o RelPathStr(Tail(rel))

\* the byte order of the characters that occur in names
CharOrder == <<"\n", " ", "!", "#", "*", ".", "/", "?", "[", "]", BT,
               "a", "b", "c", "d", "e", "g", "h", "i", "l", "m", "n", "o",
               "p", "r",
               "s", "t", "u", "x", "y">>

Rank(c) == CHOOSE i \in 1..Len(CharOrder) : CharOrder[i] = c

\* OsStr ordering of two names
RECURSIVE NameLeq(_, _)
NameLeq(a, b) ==
    IF a = <<>> THEN TRUE
    ELSE IF b = <<>> THEN FALSE
    ELSE IF Head(a) = Head(b) THEN NameLeq(Tail(a), Tail(b))
    ELSE Rank(Head(a)) < Rank(Head(b))

\* Path ordering: component by component
RECURSIVE PathLeq(_, _)
PathLeq(p, q) ==
    IF p = <<>> THEN TRUE
    ELSE IF q = <<>> THEN FALSE
    ELSE IF Head(p) = Head(q) THEN PathLeq(Tail(p), Tail(q))
    ELSE NameLeq(Head(p), Head(q))

\* entries.sort_by_key(|e| e.path().to_path_buf())
RECURSIVE SortPaths(_)
SortPaths(S) ==
    IF S = {} THEN <<>>
    ELSE LET least == CHOOSE x \in S : \A y \in S : PathLeq(x, y)
         IN <<least>> \o SortPaths(S \ {least})

Reverse(s) == [i \in 1..Len(s) |-> s[Len(s) + 1 - i]]

-----------------------------------------------------------------------------
(* Glob patterns: glob::Pattern (tree listing) and the gitignore globs of    *)
(* the ignore crate (file walk)                                            *)

GlobChar(c) == [t |-> "char", neg |-> FALSE, cs |-> {c}]
GlobAnyChar == [t |-> "any", neg |-> FALSE, cs |-> {}]
GlobAnySeq == [t |-> "seq", neg |-> FALSE, cs |-> {}]
GlobRecursive == [t |-> "rec", neg |-> FALSE, cs |-> {}]
GlobClass(neg, cs) == [t |-> "class", neg |-> neg, cs |-> cs]

BadPattern == [ok |-> FALSE, toks |-> <<>>]

PushToken(tok, r) == IF r.ok THEN [ok |-> TRUE, toks |-> <<tok>> \o r.toks] ELSE r

\* Pattern::new from (1-based) position i: "?" any character, "*" any
\* sequence, "**" a recursive wildcard that must be a whole component,
\* "[..]" a character class (ranges are not used by the patterns of the
\* model), anything else a literal; an unclosed "[" is an error
RECURSIVE Tokenize(_, _)
Tokenize(p, i) ==
    IF i > Len(p) THEN [ok |-> TRUE, toks |-> <<>>]
    ELSE IF p[i] = "?" THEN PushToken(GlobAnyChar, Tokenize(p, i + 1))
    ELSE IF p[i] = "*"
    THEN LET others == {k \in i..Len(p) : p[k] # "*"}
             j == IF others = {} THEN Len(p) + 1
                  ELSE CHOOSE k \in others : \A m \in others : k <= m
         IN IF j - i > 2 THEN BadPattern
            ELSE IF j - i = 2
            THEN IF (i = 1 \/ p[i - 1] = "/") /\ (j > Len(p) \/ p[j] = "/")
                 THEN PushToken(GlobRecursive,
                                Tokenize(p, IF j > Len(p) THEN j ELSE j + 1))
                 ELSE BadPattern
            ELSE PushToken(GlobAnySeq, Tokenize(p, j))
    ELSE IF p[i] = "["
    THEN LET neg == i + 1 <= Len(p) /\ p[i + 1] = "!"
             first == IF neg THEN i + 2 ELSE i + 1
             closes == {k \in (first + 1)..Len(p) : p[k] = "]"}
         IN IF closes = {} THEN BadPattern
            ELSE LET k == CHOOSE c \in closes : \A m \in closes : c <= m
                 IN PushToken(GlobClass(neg, {p[m] : m \in first..(k - 1)}),
                              Tokenize(p, k + 1))
    ELSE PushToken(GlobChar(p[i]), Tokenize(p, i + 1))

\* Pattern::new(p).is_ok()
IsValidGlob(p) == Tokenize(p, 1).ok

\* Pattern::matches_from; with literal_separator a wildcard or a class does
\* not match "/" (the gitignore globs)
RECURSIVE TokensMatch(_, _, _)
TokensMatch(toks, s, literal_separator) ==
    IF toks = <<>> THEN s = <<>>
    ELSE LET tok == Head(toks)
             OneChar == /\ s # <<>>
                        /\ literal_separator /\ tok.t # "char" => Head(s) # "/"
                        /\ TokensMatch(Tail(toks), Tail(s), literal_separator)
         IN IF tok.t = "char" THEN s # <<>> /\ Head(s) \in tok.cs /\ OneChar
            ELSE IF tok.t = "any" THEN OneChar
            ELSE IF tok.t = "class"
            THEN s # <<>> /\ ((Head(s) \in tok.cs) # tok.neg) /\ OneChar
            ELSE IF tok.t = "seq"
            THEN \E k \in 0..Len(s) :
                    /\ literal_separator => ~Contains(SubSeq(s, 1, k), "/")
                    /\ TokensMatch(Tail(toks), SubSeq(s, k + 1, Len(s)),
                                   literal_separator)
            ELSE \E k \in 0..Len(s) :
                    /\ k = 0 \/ s[k] = "/"
                    /\ TokensMatch(Tail(toks), SubSeq(s, k + 1, Len(s)),
                                   literal_separator)

\* glob::Pattern::matches with the default MatchOptions
GlobMatches(p, s) == Tokenize(p, 1).ok /\ TokensMatch(Tokenize(p, 1).toks, s, FALSE)

\* should_ignore of utils.rs on the relative path `rel` (a string)
RECURSIVE should_ignore(_, _)
should_ignore(rel, patterns) ==
    IF patterns = <<>> THEN FALSE
    ELSE LET pattern_str == Head(patterns)
             later == should_ignore(rel, Tail(patterns))
             standard == GlobMatches(pattern_str, rel) \/ later
         IN IF Contains(pattern_str, "/") /\ Contains(pattern_str, "*")
            THEN LET last_slash_pos == LastIndexOf(pattern_str, "/")
                     dir_part == SubSeq(pattern_str, 1, last_slash_pos)
                     file_pattern == SubSeq(pattern_str, last_slash_pos + 1,
                                            Len(pattern_str))
                     remaining_path == SubSeq(rel, Len(dir_part) + 1, Len(rel))
                 IN IF file_pattern = <<>>
                    THEN StartsWith(rel, dir_part) \/ later
                    ELSE IF StartsWith(rel, dir_part)
                    THEN \/ /\ ~Contains(remaining_path, "/")
                            /\ GlobMatches(file_pattern, remaining_path)
                         \/ later
                    ELSE standard
            ELSE standard

\* Gitignore::add_line of the ignore crate, stage by stage, for lines
\* without backslash escapes: [ok, whitelist, only_dir, toks]; ok is FALSE
\* for a comment, an empty line and a glob that does not compile.
\* Last stage: "/**" at the end becomes "/**/*", and the glob is compiled
GitGlobTokens(text, whitelist, only_dir, actual) ==
    LET compiled == Tokenize(IF EndsWith(actual, Chars("/**"))
                             THEN actual \o Chars("/*") ELSE actual, 1)
    IN [ok |-> ~StartsWith(text, <<"#">>) /\ TrimEnd(text) # <<>> /\ compiled.ok,
        whitelist |-> whitelist,
        only_dir |-> only_dir,
        toks |-> compiled.toks]

\* a glob that is not anchored and holds no "/" matches at any depth: it
\* gets the prefix "**/"
GitGlobAnywhere(text, whitelist, only_dir, absolute, body) ==
    GitGlobTokens(text, whitelist, only_dir,
                  IF /\ ~absolute /\ ~Contains(body, "/")
                     /\ ~StartsWith(body, Chars("**/")) /\ body # Chars("**")
                  THEN Chars("**/") \o body ELSE body)

\* a trailing "/" restricts the glob to directories and is dropped
GitGlobDir(text, whitelist, absolute, rest) ==
    GitGlobAnywhere(text, whitelist, EndsWith(rest, <<"/">>), absolute,
                    IF EndsWith(rest, <<"/">>)
                    THEN SubSeq(rest, 1, Len(rest) - 1) ELSE rest)

\* a leading "/" anchors the glob at the root and is dropped
GitGlobAnchor(text, whitelist, rest) ==
    GitGlobDir(text, whitelist, StartsWith(rest, <<"/">>),
               IF StartsWith(rest, <<"/">>) THEN Tail(rest) ELSE rest)

\* a leading "!" makes the line a whitelist and is dropped
GitGlobBang(text, trimmed) ==
    GitGlobAnchor(text, StartsWith(trimmed, <<"!">>),
                  IF StartsWith(trimmed, <<"!">>) THEN Tail(trimmed) ELSE trimmed)

GitGlob(text) == GitGlobBang(text, TrimEnd(text))

\* Gitignore::matched on a path relative to the root: the last glob that
\* matches decides; "none", "ignore" or "whitelist"
RECURSIVE GitMatched(_, _, _)
GitMatched(globs, rel, is_dir) ==
    IF globs = <<>> THEN "none"
    ELSE LET g == globs[Len(globs)] IN
         IF g.ok /\ (~g.only_dir \/ is_dir) /\ TokensMatch(g.toks, rel, TRUE)
         THEN IF g.whitelist THEN "whitelist" ELSE "ignore"
         ELSE GitMatched(SubSeq(globs, 1, Len(globs) - 1), rel, is_dir)

\* the globs of a list of gitignore lines
GitGlobs(texts) == [i \in 1..Len(texts) |-> GitGlob(texts[i])]

\* Override::matched: the verdict of the gitignore matcher inverted; a path
\* that matches nothing is ignored when some override is a whitelist
OverrideIgnores(globs, rel, is_dir) ==
    LET m == GitMatched(globs, rel, is_dir) IN
    \/ m = "whitelist"
    \/ /\ m = "none" /\ ~is_dir
       /\ \E i \in 1..Len(globs) : globs[i].ok /\ ~globs[i].whitelist
-----------------------------------------------------------------------------
(* src/src/curly/run.rs: Generator::run over a source tree.  A tree maps    *)
(* the relative path of every entry (a sequence of names) to                *)
(* [kind : "dir" or "file", content].                                      *)

DefaultOutput == Chars("curly.out")
GitDir == Chars(".git")
ConfigFile == Chars("curly.yaml")
GitignoreFile == Chars(".gitignore")

\* get_default_ignore_patterns_for_ignore
get_default_ignore_patterns_for_ignore(language) ==
    IF language = Chars("python")
    THEN << Chars("__pycache__/"), Chars("*.pyc"), Chars("*.pyo"), Chars("*.pyd"),
            Chars(".Python"), Chars("build/"), Chars("develop-eggs/"), Chars("dist/"),
            Chars("downloads/"), Chars("eggs/"), Chars(".eggs/"), Chars("lib/"),
            Chars("lib64/"), Chars("parts/"), Chars("sdist/"), Chars("var/"),
            Chars("wheels/"), Chars("share/python-wheels/"), Chars("*.egg-info/"),
            Chars(".installed.cfg"), Chars("*.egg"), Chars("MANIFEST"),
            Chars(".env"), Chars(".venv"), Chars("env/"), Chars("venv/"),
            Chars("ENV/"), Chars("VENV/"), Chars(".pytest_cache/"),
            Chars(".mypy_cache/"), Chars(".dmypy.json"), Chars("dmypy.json"),
            Chars(".coverage"), Chars("htmlcov/"), Chars("instance/"),
            Chars(".webassets-cache") >>
    ELSE IF language = Chars("javascript")
    THEN << Chars("node_modules/"), Chars("npm-debug.log*"), Chars("yarn-debug.log*"),
            Chars("yarn-error.log*"), Chars("dist/"), Chars("build/"),
            Chars(".DS_Store") >>
    ELSE IF language = Chars("rust")
    THEN << Chars("target"), Chars("Cargo.lock") >>
    ELSE <<>>

\* config.output.as_deref().unwrap_or("curly.out")
output_file_name(c) == IF c.output = None THEN DefaultOutput ELSE c.output[1]

\* config.ignore as a list
IgnoreList(c) == IF c.ignore = None THEN <<>> ELSE c.ignore[1]

IsDir(tr, rel) == rel \in DOMAIN tr /\ tr[rel].kind = "dir"
IsFile(tr, rel) == rel \in DOMAIN tr /\ tr[rel].kind = "file"

\* the entries of the directory `dir`
Children(tr, dir) ==
    {r \in DOMAIN tr : Len(r) = Len(dir) + 1 /\ SubSeq(r, 1, Len(dir)) = dir}

\* ignore_patterns_for_structure: the valid patterns of config.ignore, then
\* the output file name, .git, curly.yaml and .gitignore
ignore_patterns_for_structure(c) ==
    SelectSeq(IgnoreList(c), IsValidGlob)
        \o <<output_file_name(c), GitDir, ConfigFile, GitignoreFile>>

\* the line of one entry of the tree listing
TreeLine(prefix, is_last, name) ==
    prefix \o <<IF is_last THEN ELBOW ELSE TEE, DASH, DASH, " ">> \o name \o <<"\n">>

\* process_directory_structure: the entries of `dir` come in the order
\* `ordered`; ascending stands for one order of read_dir, descending for
\* another
RECURSIVE process_directory_structure(_, _, _, _, _)
RECURSIVE ListEntries(_, _, _, _, _, _)
process_directory_structure(tr, dir, patterns, prefix, ascending) ==
    LET kept == {r \in Children(tr, dir) : ~should_ignore(RelPathStr(r), patterns)}
        ordered == IF ascending THEN SortPaths(kept) ELSE Reverse(SortPaths(kept))
    IN ListEntries(tr, ordered, 1, patterns, prefix, ascending)

ListEntries(tr, ordered, i, patterns, prefix, ascending) ==
    IF i > Len(ordered) THEN <<>>
    ELSE LET path == ordered[i]
             is_last == i = Len(ordered)
             new_prefix == prefix \o <<IF is_last THEN " " ELSE PIPE, " ", " ", " ">>
         IN TreeLine(prefix, is_last, path[Len(path)])
              \o (IF IsDir(tr, path)
                  THEN process_directory_structure(tr, path, patterns, new_prefix,
                                                   ascending)
                  ELSE <<>>)
              \o ListEntries(tr, ordered, i + 1, patterns, prefix, ascending)

\* the lines handed to the OverrideBuilder: "!" and, in this order, the
\* output file name, .git, .gitignore, curly.yaml, the patterns of
\* config.ignore and the defaults of config.language
OverrideLines(c) ==
    LET Negated(list) == [i \in 1..Len(list) |-> <<"!">> \o list[i]] IN
    Negated(<<output_file_name(c), GitDir, GitignoreFile, ConfigFile>>
            \o IgnoreList(c)
            \o (IF c.language = None THEN <<>>
                ELSE get_default_ignore_patterns_for_ignore(c.language[1])))

\* the rules of the .gitignore file at the root, when the walker reads it:
\* config.use_gitignore is not false and the root is a git repository
GitignoreLines(tr, c) ==
    IF /\ c.use_gitignore # Some(FALSE)
       /\ IsFile(tr, <<GitignoreFile>>)
       /\ <<GitDir>> \in DOMAIN tr
    THEN Lines(tr[<<GitignoreFile>>].content)
    ELSE <<>>

\* the walker skips the entry: an override ignores it, or an ignore file
\* does, or it is hidden and no ignore file whitelists it
SkipsEntry(tr, c, rel) ==
    LET is_dir == IsDir(tr, rel)
        by_file == GitMatched(GitGlobs(GitignoreLines(tr, c)), RelPathStr(rel), is_dir)
    IN \/ OverrideIgnores(GitGlobs(OverrideLines(c)), RelPathStr(rel), is_dir)
       \/ by_file = "ignore"
       \/ by_file = "none" /\ StartsWith(rel[Len(rel)], <<".">>)

\* the files the walker yields: no entry on the way from the root is skipped
WalkedFiles(tr, c) ==
    {rel \in DOMAIN tr :
        /\ IsFile(tr, rel)
        /\ \A k \in 1..Len(rel) : ~SkipsEntry(tr, c, SubSeq(rel, 1, k))}

\* process_file, default case: the fenced block of one file
process_file(tr, rel, delimiter) ==
    delimiter \o RelPathStr(rel) \o <<"\n">>
        \o tr[rel].content
        \o <<"\n">> \o delimiter \o <<"\n", "\n">>

\* the name of the source directory (canonical_repo_path.file_name())
SourceDirName == Chars("s")

\* the contents a regular file of the source tree may have
Contents == { Chars("x"), <<"x", "\n">> }

\* the regular files a source tree may hold
RegularFiles == { <<Chars("a.b")>>, <<Chars("m")>> }

Dir == [kind |-> "dir", content |-> <<>>]
File(content) == [kind |-> "file", content |-> content]

\* what every source tree holds: the directory d and a file inside it, the
\* directory .git and a file inside it, the config file and a file named
\* like the output of the run
Skeleton(c) ==
    (<<Chars("d")>> :> Dir) @@ (<<GitDir>> :> Dir)
        @@ (<<Chars("d"), Chars("a.b")>> :> File(Chars("x")))
        @@ (<<GitDir, Chars("c")>> :> File(Chars("x")))
        @@ (<<ConfigFile>> :> File(Chars("x")))
        @@ (<<output_file_name(c)>> :> File(Chars("x")))

\* the source trees of a configuration: the skeleton, possibly a .gitignore
\* that ignores the file m, and any choice of regular files and contents
Trees(c) ==
    { IF with_gitignore
      THEN regular @@ (<<GitignoreFile>> :> File(<<"m", "\n">>)) @@ Skeleton(c)
      ELSE regular @@ Skeleton(c) :
        regular \in UNION { [S -> {File(t) : t \in Contents}] :
                               S \in SUBSET RegularFiles },
        with_gitignore \in BOOLEAN }

\* the configurations of a run
NoConfig ==
    [output |-> None, ignore |-> None, language |-> None, use_gitignore |-> None,
     delimiter |-> None, docs_comments_only |-> None, docs_ignore |-> None]

\* the configured delimiters other than the default: three tildes, four
\* backticks
Delimiters == {Chars("~~~"), <<BT, BT, BT, BT>>}

\* let delimiter = config.delimiter.as_deref().unwrap_or("```")
config_delimiter(c) == IF c.delimiter = None THEN Delimiter ELSE c.delimiter[1]

Configs ==
    [ output : {None, Some(Chars("o")), Some(Chars("[o]")), Some(Chars("["))},
      ignore : {None, Some(<<Chars("m")>>), Some(<<Chars("d/"), Chars("[")>>)},
      language : {None, Some(Chars("rust"))},
      use_gitignore : {None, Some(FALSE)},
      delimiter : {None},
      docs_comments_only : {None},
      docs_ignore : {None} ]
      \cup {[NoConfig EXCEPT !.delimiter = Some(d)] : d \in Delimiters}

\* the repository of the runs that only generate: d/a.b, d/h.b, d/s/c.b,
\* e/d/g.b and the root file ds
ListingTree ==
    (<<Chars("d")>> :> Dir)
        @@ (<<Chars("d"), Chars("a.b")>> :> File(Chars("x")))
        @@ (<<Chars("d"), Chars("h.b")>> :> File(Chars("x")))
        @@ (<<Chars("d"), Chars("s")>> :> Dir)
        @@ (<<Chars("d"), Chars("s"), Chars("c.b")>> :> File(Chars("x")))
        @@ (<<Chars("e")>> :> Dir)
        @@ (<<Chars("e"), Chars("d")>> :> Dir)
        @@ (<<Chars("e"), Chars("d"), Chars("g.b")>> :> File(Chars("x")))
        @@ (<<Chars("ds")>> :> File(Chars("x")))

\* the ignore lists of the runs that only generate
ListingRules ==
    { <<Chars("d/")>>, <<Chars("e/")>>, <<Chars("d")>>, <<Chars("?")>>,
      <<Chars("d/*.b")>>, <<Chars("?/*.b")>> }

\* the files whose read fails (std_fs::read_to_string returns Err): none,
\* one, two of the same directory, two of different directories
UnreadableSets ==
    { {},
      { <<Chars("d"), Chars("a.b")>> },
      { <<Chars("d"), Chars("a.b")>>, <<Chars("d"), Chars("h.b")>> },
      { <<Chars("d"), Chars("a.b")>>, <<Chars("ds")>> },
      { <<Chars("n.ipynb")>> } }

\* the configurations of the runs that only generate
ListingConfigs ==
    [ output : {None},
      ignore : {None} \cup {Some(r) : r \in ListingRules},
      language : {None},
      use_gitignore : {None},
      delimiter : {None},
      docs_comments_only : {None},
      docs_ignore : {None} ]

-----------------------------------------------------------------------------
(* src/src/curly/parse_python.rs and the docs-only branch of process_file  *)

QUOTE == "\""

MaxStatements == 2

\* the statements of the Python sources, one per line: a string literal, the
\* empty string literal, an assignment, a comment, a function with a
\* one-line body, an import
PyStatements ==
    { <<QUOTE, "s", QUOTE>>, <<QUOTE, QUOTE>>, Chars("x=1"), Chars("#c"),
      Chars("def f():0"), Chars("import a") }

RECURSIVE JoinLines(_)
JoinLines(lns) ==
    IF lns = <<>> THEN <<>> ELSE Head(lns) \o <<"\n">> \o JoinLines(Tail(lns))

\* the Python sources: up to MaxStatements statements
PySources ==
    {JoinLines(lns) : lns \in UNION {[1..n -> PyStatements] : n \in 0..MaxStatements}}

\* the kind tree-sitter gives the node of a top-level statement; an
\* assignment and a bare string are both expression statements
node_kind(stmt) ==
    IF StartsWith(stmt, Chars("def ")) THEN "function_definition"
    ELSE IF StartsWith(stmt, Chars("class ")) THEN "class_definition"
    ELSE IF StartsWith(stmt, <<"#">>) THEN "comment"
    ELSE IF StartsWith(stmt, Chars("import ")) THEN "import_statement"
    ELSE "expression_statement"

\* the expression statement has a named child of kind "string"
HasStringChild(stmt) ==
    Len(stmt) >= 2 /\ StartsWith(stmt, <<QUOTE>>) /\ EndsWith(stmt, <<QUOTE>>)

\* strip_quotes: the inner text and the quote type
strip_quotes(str) ==
    LET t == Trim(str)
        triple == <<QUOTE, QUOTE, QUOTE>>
    IN IF Len(t) >= 6 /\ StartsWith(t, triple) /\ EndsWith(t, triple)
       THEN [text |-> SubSeq(t, 4, Len(t) - 3), quote_type |-> triple]
       ELSE IF Len(t) >= 2 /\ StartsWith(t, <<QUOTE>>) /\ EndsWith(t, <<QUOTE>>)
       THEN [text |-> SubSeq(t, 2, Len(t) - 1), quote_type |-> <<QUOTE>>]
       ELSE [text |-> t, quote_type |-> <<>>]

\* dedent: `&lines[1..]` is taken when the first line is blank or missing;
\* for a text without any line the slice start is out of range
dedent_panics(str) == Lines(str) = <<>>

\* indent_docstring on a docstring of one line: dedent drops a blank line
\* and the leading white space; the quotes are put back around the text
indent_docstring(docstring, indent, quote_type) ==
    LET dedented == TrimStart(docstring) IN
    IF quote_type = <<>> THEN (IF dedented = <<>> THEN <<>> ELSE indent \o dedented)
    ELSE indent \o quote_type \o Trim(dedented) \o quote_type

\* the loop of extract_module_docstring over the children of the root
\* node: the string it stops at, if any; an expression statement without a
\* string child does not end the search
RECURSIVE module_docstring_node(_)
module_docstring_node(children) ==
    IF children = <<>> THEN None
    ELSE IF node_kind(Head(children)) = "expression_statement"
    THEN IF HasStringChild(Head(children))
         THEN Some(Head(children))
         ELSE module_docstring_node(Tail(children))
    ELSE IF node_kind(Head(children)) = "comment"
    THEN module_docstring_node(Tail(children))
    ELSE None

\* extract_module_docstring
extract_module_docstring(children) ==
    IF module_docstring_node(children) = None THEN <<>>
    ELSE indent_docstring(strip_quotes(module_docstring_node(children)[1]).text, <<>>,
                          strip_quotes(module_docstring_node(children)[1]).quote_type)

\* extract_python_signatures panics: dedent is called on the text of the
\* module docstring
extract_python_signatures_panics(contents) ==
    /\ module_docstring_node(Lines(contents)) # None
    /\ dedent_panics(strip_quotes(module_docstring_node(Lines(contents))[1]).text)

\* extract_signature_and_docstring at nesting level 0: the keyword, the
\* name, the parameters and the colon; the one-line body holds no docstring
extract_signature_and_docstring(stmt) ==
    IF node_kind(stmt) \in {"function_definition", "class_definition"}
    THEN SubSeq(stmt, 1, IndexOf(stmt, ":")) \o <<"\n">>
    ELSE <<>>

\* extract_definitions: the signature of a definition and a line feed; the
\* one-line body holds no nested definition
extract_definitions(stmt) ==
    IF node_kind(stmt) \in {"function_definition", "class_definition"}
    THEN extract_signature_and_docstring(stmt) \o <<"\n">>
    ELSE <<>>

RECURSIVE ChildSignatures(_)
ChildSignatures(children) ==
    IF children = <<>> THEN <<>>
    ELSE (IF extract_definitions(Head(children)) # <<>>
          THEN extract_definitions(Head(children)) \o <<"\n">> ELSE <<>>)
            \o ChildSignatures(Tail(children))

\* extract_python_signatures
extract_python_signatures(contents) ==
    LET children == Lines(contents)
        module_docstring == extract_module_docstring(children)
    IN (IF module_docstring # <<>> THEN module_docstring \o <<"\n">> ELSE <<>>)
          \o ChildSignatures(children)

\* Path::extension of the file name
extension(rel) ==
    LET name == rel[Len(rel)] IN
    IF Contains(name, ".") /\ LastIndexOf(name, ".") > 1
    THEN SubSeq(name, LastIndexOf(name, ".") + 1, Len(name))
    ELSE <<>>

\* should_ignore_docs_only: a valid pattern of config.docs_ignore matches
\* the relative path or the path of the file
should_ignore_docs_only(c, rel) ==
    /\ c.docs_ignore # None
    /\ \E i \in 1..Len(c.docs_ignore[1]) :
          \/ GlobMatches(c.docs_ignore[1][i], RelPathStr(rel))
          \/ GlobMatches(c.docs_ignore[1][i],
                         <<"/">> \o SourceDirName \o <<"/">> \o RelPathStr(rel))

\* the contents of the notebook files: no JSON, a JSON object without
\* cells, a notebook without cells, a notebook with one code cell
NotebookSources ==
    { Chars("x"), Chars("{}"), Chars("{\"cells\":[]}"),
      Chars("{\"cells\":[{\"cell_type\":\"code\",\"source\":[\"y\"]}]}") }

\* serde_json::from_str on the contents above: the value, its `cells`
\* array if it has one
from_str(contents) ==
    IF contents = Chars("{}") THEN Some([cells |-> None])
    ELSE IF contents = Chars("{\"cells\":[]}") THEN Some([cells |-> Some(<<>>)])
    ELSE IF contents = Chars("{\"cells\":[{\"cell_type\":\"code\",\"source\":[\"y\"]}]}")
    THEN Some([cells |-> Some(<<[cell_type |-> "code", source |-> <<Chars("y")>>]>>)])
    ELSE None

\* maybe_read_notebook: None when the file cannot be read or is no JSON
maybe_read_notebook(tr, rel, readable) ==
    IF readable THEN from_str(tr[rel].content) ELSE None

RECURSIVE ConcatAll(_)
ConcatAll(strs) == IF strs = <<>> THEN <<>> ELSE Head(strs) \o ConcatAll(Tail(strs))

\* the transcript of the cells from number i on (fewer than ten cells)
RECURSIVE notebook_cells(_, _)
notebook_cells(cells, i) ==
    IF cells = <<>> THEN <<>>
    ELSE (IF Head(cells).cell_type \in {"code", "markdown"}
          THEN Chars("// Cell #") \o <<Chars("0123456789")[i + 1]>>
                  \o Chars(" (") \o Chars(Head(cells).cell_type) \o Chars(")")
                  \o <<"\n">> \o ConcatAll(Head(cells).source) \o <<"\n">>
          ELSE <<>>)
            \o notebook_cells(Tail(cells), i + 1)

\* process_file of run.rs: the docs-only branch, the notebook branch, else
\* the default block; `readable` tells whether the file can be read as
\* UTF-8.  The status is "ok", "err" (the Err of the read) or "panic"
process_file_with_config(tr, rel, c, readable) ==
    IF /\ c.docs_comments_only = Some(TRUE)
       /\ ~should_ignore_docs_only(c, rel)
       /\ c.language = Some(Chars("python"))
    THEN IF extension(rel) # Chars("py") THEN [status |-> "ok", out |-> <<>>]
         ELSE IF ~readable THEN [status |-> "err", out |-> <<>>]
         ELSE IF extract_python_signatures_panics(tr[rel].content)
         THEN [status |-> "panic", out |-> <<>>]
         ELSE LET signatures == extract_python_signatures(tr[rel].content) IN
              IF Trim(signatures) # <<>>
              THEN [status |-> "ok",
                    out |-> config_delimiter(c) \o RelPathStr(rel) \o <<"\n">>
                              \o signatures
                              \o <<"\n">> \o config_delimiter(c) \o <<"\n", "\n">>]
              ELSE [status |-> "ok", out |-> <<>>]
    ELSE IF extension(rel) = Chars("ipynb")
    THEN IF maybe_read_notebook(tr, rel, readable) = None
         THEN [status |-> "ok", out |-> <<>>]
         ELSE [status |-> "ok",
               out |-> config_delimiter(c) \o RelPathStr(rel) \o <<"\n">>
                         \o (IF maybe_read_notebook(tr, rel, readable)[1].cells = None
                             THEN <<>>
                             ELSE notebook_cells(
                                     maybe_read_notebook(tr, rel, readable)[1].cells[1], 0))
                         \o <<"\n">> \o config_delimiter(c) \o <<"\n", "\n">>]
    ELSE IF ~readable THEN [status |-> "err", out |-> <<>>]
    ELSE [status |-> "ok", out |-> process_file(tr, rel, config_delimiter(c))]

\* the configurations of the docs-only runs
DocsConfigs ==
    { [NoConfig EXCEPT !.docs_comments_only = Some(TRUE),
                       !.language = l, !.docs_ignore = g] :
        l \in {None, Some(Chars("python"))},
        g \in {None, Some(<<Chars("*.py")>>)} }

\* the configuration of the runs on a notebook: no language hint
DocsFlagOnly == [NoConfig EXCEPT !.docs_comments_only = Some(TRUE)]

\* the repositories of the docs-only runs: a Python source or a notebook,
\* and the file m
DocsTrees ==
    { (<<Chars("a.py")>> :> File(src)) @@ (<<Chars("m")>> :> File(Chars("x"))) :
        src \in PySources }
      \cup
    { (<<Chars("n.ipynb")>> :> File(src)) @@ (<<Chars("m")>> :> File(Chars("x"))) :
        src \in NotebookSources }
-----------------------------------------------------------------------------
(* The legacy generator of src/src/lib.rs *)

\* get_default_ignore_patterns of lib.rs (the language name in lower case)
get_default_ignore_patterns(language) ==
    IF language = Chars("rust")
    THEN << Chars("target"), Chars("*.rs.bk"), Chars("Cargo.lock") >>
    ELSE IF language = Chars("python")
    THEN << Chars("*.pyc"), Chars("__pycache__"), Chars(".venv"), Chars("venv") >>
    ELSE IF language \in {Chars("javascript"), Chars("typescript")}
    THEN << Chars("node_modules"), Chars("*.min.js"), Chars("dist") >>
    ELSE IF language = Chars("java")
    THEN << Chars("*.class"), Chars("*.jar"), Chars("target"), Chars(".idea") >>
    ELSE IF language = Chars("c++")
    THEN << Chars("*.o"), Chars("*.obj"), Chars("*.exe"), Chars("build") >>
    ELSE IF language = Chars("go")
    THEN << Chars("*.out"), Chars("*.test"), Chars("vendor") >>
    ELSE IF language = Chars("php")
    THEN << Chars("*.log"), Chars("vendor"), Chars("composer.lock") >>
    ELSE <<>>

\* the patterns run of lib.rs compiles, each with Pattern::new(..).unwrap():
\* config.ignore, the output file name, .git, curly.yaml, the lines of
\* .gitignore (trimmed, neither empty nor a comment) unless use_gitignore is
\* false, and the defaults of the language
lib_ignore_patterns(tr, c) ==
    LET kept(l) == Trim(l) # <<>> /\ ~StartsWith(Trim(l), <<"#">>)
        gitignore == IF c.use_gitignore # Some(FALSE) /\ IsFile(tr, <<GitignoreFile>>)
                     THEN SelectSeq(Lines(tr[<<GitignoreFile>>].content), kept)
                     ELSE <<>>
    IN IgnoreList(c) \o <<output_file_name(c), GitDir, ConfigFile>>
         \o [i \in 1..Len(gitignore) |-> Trim(gitignore[i])]
         \o (IF c.language = None THEN <<>>
             ELSE get_default_ignore_patterns(c.language[1]))

\* should_ignore of lib.rs on a path as WalkDir yields it, the repository
\* path included: some pattern matches the path or one of its components
lib_should_ignore(path, patterns) ==
    \E i \in 1..Len(patterns) :
        \/ GlobMatches(patterns[i], RelPathStr(path))
        \/ \E k \in 1..Len(path) : GlobMatches(patterns[i], path[k])

\* process_directory_structure of lib.rs; config.path is the relative path
\* SourceDirName
RECURSIVE lib_process_directory_structure(_, _, _, _, _)
RECURSIVE LibListEntries(_, _, _, _, _, _)
lib_process_directory_structure(tr, dir, patterns, prefix, ascending) ==
    LET kept == {r \in Children(tr, dir) :
                    ~lib_should_ignore(<<SourceDirName>> \o r, patterns)}
        ordered == IF ascending THEN SortPaths(kept) ELSE Reverse(SortPaths(kept))
    IN LibListEntries(tr, ordered, 1, patterns, prefix, ascending)

LibListEntries(tr, ordered, i, patterns, prefix, ascending) ==
    IF i > Len(ordered) THEN <<>>
    ELSE LET path == ordered[i]
             is_last == i = Len(ordered)
             new_prefix == prefix \o <<IF is_last THEN " " ELSE PIPE, " ", " ", " ">>
         IN TreeLine(prefix, is_last, path[Len(path)])
              \o (IF IsDir(tr, path)
                  THEN lib_process_directory_structure(tr, path, patterns,
                                                       new_prefix, ascending)
                  ELSE <<>>)
              \o LibListEntries(tr, ordered, i + 1, patterns, prefix, ascending)

\* the files process_directory_files of lib.rs collects: WalkDir with
\* filter_entry, which prunes the repository directory itself as well
LibFiles(tr, patterns) ==
    {rel \in DOMAIN tr :
        /\ IsFile(tr, rel)
        /\ \A k \in 0..Len(rel) :
             ~lib_should_ignore(<<SourceDirName>> \o SubSeq(rel, 1, k), patterns)}

\* process_file of lib.rs, default processing: what is left in local_output
\* and whether Ok is returned; the fence is the literal triple backtick
lib_process_file(tr, rel, readable) ==
    IF readable
    THEN [ok |-> TRUE,
          out |-> Delimiter \o RelPathStr(rel) \o <<"\n">> \o tr[rel].content
                     \o <<"\n">> \o Delimiter \o <<"\n", "\n">>]
    ELSE [ok |-> FALSE,
          out |-> Delimiter \o RelPathStr(rel) \o <<"\n">>
                     \o Chars("[Error reading file]")]

-----------------------------------------------------------------------------
(* The world of an inject run *)

W == <<"w">>
R == <<"r">>
O == <<"o">>
L == <<"l">>
F == <<"f">>
E == <<"e">>

\* the repository root /w/r, a directory /w/o outside it, an empty
\* directory /w/e and a repo_path that does not exist
RepoRoot == <<W, R>>
Outside == <<W, O>>
EmptyRoot == <<W, E>>
MissingRepo == <<W, <<"m">>>>

OldContent == <<"o", "l", "d">>

\* /w/r holds a file f and a symlink l -> /w/o; /w/o holds a file f
InitFs ==
    [dirs |-> {<<>>, <<W>>, RepoRoot, Outside, EmptyRoot},
     links |-> (Append(RepoRoot, L) :> Outside),
     files |-> (Append(RepoRoot, F) :> OldContent) @@ (Append(Outside, F) :> OldContent)]

\* the lines an input document is made of
DocLines ==
    { HeadingOpen \o <<"d", "/", "f">> \o Backtick,        \* ### `d/f`
      BoldOpen \o <<"f">> \o BoldClose,                    \* **`f`**
      Backtick \o <<"l", "/", "f">> \o Backtick,           \* `l/f`
      <<".", ".", "/", "n", "/", "f">>,                    \* ../n/f
      Delimiter,                                           \* ```
      Delimiter \o <<"a">>,                                \* ```a
      Delimiter \o <<".">>,                                \* ```.
      Delimiter \o <<"a", " ", "/", "f">>,                 \* ```a /f
      <<" ">> \o Delimiter,                                \* an indented ```
      <<"x">>,
      <<" ">> }

\* the lines of a document of several blocks: fence lines that carry the
\* path f or d/f after a language tag, the bare fence and two content lines
BlockLines ==
    { Delimiter \o <<"a", " ", "f">>,                      \* ```a f
      Delimiter \o <<"a", " ", "d", "/", "f">>,            \* ```a d/f
      Delimiter,
      <<"x">>,
      <<"y">> }

\* the characters of the free-form part of a probe line
BodyAlphabet == {BT, "*", " ", "\t", "/", ".", "a"}

RECURSIVE StringsUpTo(_)
StringsUpTo(n) ==
    IF n = 0 THEN {<<>>}
    ELSE LET shorter == StringsUpTo(n - 1)
         IN shorter \cup {Append(t, c) : t \in shorter, c \in BodyAlphabet}

\* every line made of optional padding, an opening marker, a free-form
\* body, a closing marker and optional padding
RichLines ==
    { lead \o open \o body \o close \o trail :
        lead \in {<<>>, <<" ">>},
        open \in {<<>>, HeadingOpen, BoldOpen, Backtick, Delimiter,
                  Delimiter \o <<"a", " ">>, <<"#">>},
        body \in StringsUpTo(MaxBody),
        close \in {<<>>, Backtick, BoldClose},
        trail \in {<<>>, <<" ">>} }

\* what precedes the probe line: nothing of interest, or a path announcement
PreLines == { <<" ">>, <<"q">> }

\* what follows the probe line: a fence line with a language tag and a
\* line of content, in turn
TailLine(i) == IF i % 2 = 1 THEN Delimiter \o <<"a">> ELSE <<"x", " ">>

\* the lines the document may continue with after `n` lines, per family of
\* input documents: "doc" (any sequence of DocLines), "blocks" (any
\* sequence of BlockLines), "probe" (a line of
\* PreLines, a line of RichLines, then fence, content, fence, ...) and
\* "generated" (the document Generator::run returned); a run of the family
\* "listing" only generates
NextLines(family, n) ==
    IF family = "doc"
    THEN IF n < MaxLines THEN DocLines ELSE {}
    ELSE IF family = "blocks"
    THEN IF n < MaxBlockLines THEN BlockLines ELSE {}
    ELSE IF family = "generated"
    THEN IF n < Len(Lines(output)) THEN {Lines(output)[n + 1]} ELSE {}
    ELSE IF n = 0 THEN PreLines
    ELSE IF n = 1 THEN RichLines
    ELSE IF n < 2 + MaxTail THEN {TailLine(n - 1)}
    ELSE {}

\* the runs of the model: which injector, on which family of documents
Runs == {<<"prmpt", "doc">>, <<"curly", "doc">>, <<"prmpt", "probe">>,
         <<"prmpt", "blocks">>,
         <<"prmpt", "generated">>, <<"prmpt", "listing">>, <<"prmpt", "docs">>}

NoBlock == [target_path |-> <<>>, content |-> <<>>, dir |-> <<>>, name |-> <<>>]

Parser == [state |-> state, current_target_path |-> current_target_path,
           current_code_block |-> current_code_block, blocks |-> blocks,
           panicked |-> panicked]

SetParser(p) ==
    /\ state' = p.state
    /\ current_target_path' = p.current_target_path
    /\ current_code_block' = p.current_code_block
    /\ blocks' = p.blocks
    /\ panicked' = p.panicked

\* base_path_canon of a run that got past the first statement of inject
base_path_canon == canonicalize(fs, env.repo_path).path

InitInject ==
    /\ env \in [repo_path : {RepoRoot, MissingRepo, EmptyRoot},
                 input_readable : BOOLEAN,
                 family : {"doc", "probe", "blocks", "generated", "listing", "docs"},
                 generator : {"run", "lib"},
                 unreadable : UnreadableSets]
    /\ impl \in {"prmpt", "curly"}
    /\ <<impl, env.family>> \in Runs
    /\ env.generator = "lib" => env.family = "listing"
    /\ IF env.family = "generated"
       THEN /\ env.repo_path = EmptyRoot
            /\ env.input_readable
            /\ env.unreadable = {}
            /\ cfg \in Configs
            /\ tree \in Trees(cfg)
            /\ pc = "generate"
       ELSE IF env.family = "listing"
       THEN /\ env.repo_path = EmptyRoot
            /\ env.input_readable
            /\ cfg \in ListingConfigs
            /\ env.unreadable # {} => cfg.ignore = None
            /\ tree = ListingTree
            /\ env.unreadable \subseteq DOMAIN tree
            /\ pc = "generate"
       ELSE IF env.family = "docs"
       THEN /\ env.repo_path = EmptyRoot
            /\ env.input_readable
            /\ cfg \in DocsConfigs
            /\ tree \in DocsTrees
            /\ env.unreadable \subseteq DOMAIN tree
            /\ <<Chars("n.ipynb")>> \in DOMAIN tree => cfg = DocsFlagOnly
            /\ pc = "generate"
       ELSE /\ env.repo_path # EmptyRoot
            /\ env.unreadable = {}
            /\ cfg = NoConfig
            /\ tree = <<>>
            /\ pc = "start"
    /\ output = <<>>
    /\ fi = 0
    /\ error_count = <<>>
    /\ errors = <<>>
    /\ jobs = <<>>
    /\ result = "running"
    /\ doc = <<>>
    /\ state = "ExpectingPath"
    /\ current_target_path = None
    /\ current_code_block = <<>>
    /\ blocks = <<>>
    /\ panicked = FALSE
    /\ fs = InitFs
    /\ bi = 0
    /\ cur = NoBlock
    /\ log = <<>>

\* Injector::inject up to the parse: canonicalize the root, read the input
Start ==
    /\ pc = "start"
    /\ IF canonicalize(fs, env.repo_path).ok /\ env.input_readable
       THEN pc' = "parse" /\ result' = result
       ELSE pc' = "done" /\ result' = "err"
    /\ UNCHANGED <<impl, env, genVars, parserVars, writerVars>>

\* InjectionParser::parse, one line of content.lines()
ReadLine ==
    /\ pc = "parse"
    /\ impl = "prmpt"
    /\ \E ln \in NextLines(env.family, nread) :
         LET p == parse_line(Parser, ln) IN
         /\ doc' = Append(doc, ln)
         /\ SetParser(p)
         /\ IF p.panicked
            THEN pc' = "done" /\ result' = "panic"
            ELSE pc' = pc /\ result' = result
    /\ UNCHANGED <<impl, env, genVars, writerVars>>

\* the end of content.lines(): flush, then the loop over code_blocks starts
EndOfInput ==
    /\ pc = "parse"
    /\ impl = "prmpt"
    /\ env.family = "generated" => nread = Len(Lines(output))
    /\ SetParser(parse_eof(Parser))
    /\ pc' = "next"
    /\ bi' = 1
    /\ UNCHANGED <<impl, env, genVars, result, doc, fs, cur, log>>

\* the loop over code_blocks taking the blocks from the last to the first
NextBlockReversed ==
    /\ pc = "next"
    /\ IF bi > Len(blocks)
       THEN pc' = "done" /\ result' = "ok" /\ cur' = cur
       ELSE /\ pc' = "prepare"
            /\ result' = result
            /\ cur' = [NoBlock EXCEPT
                          !.target_path = blocks[Len(blocks) + 1 - bi].target_path,
                          !.content = blocks[Len(blocks) + 1 - bi].content]
    /\ UNCHANGED <<impl, env, genVars, parserVars, fs, bi, log>>

\* `for block in code_blocks`
NextBlock ==
    /\ pc = "next"
    /\ IF bi > Len(blocks)
       THEN pc' = "done" /\ result' = "ok" /\ cur' = cur
       ELSE /\ pc' = "prepare"
            /\ result' = result
            /\ cur' = [NoBlock EXCEPT !.target_path = blocks[bi].target_path,
                                       !.content = blocks[bi].content]
    /\ UNCHANGED <<impl, env, genVars, parserVars, fs, bi, log>>

\* the legacy loop, one line; a closing fence with a path and a non-empty
\* buffer goes on to the file-writing code of the same iteration
LegacyLine ==
    /\ pc = "parse"
    /\ impl = "curly"
    /\ \E ln \in NextLines(env.family, nread) :
         LET p == legacy_line(Parser, ln) IN
         /\ doc' = Append(doc, ln)
         /\ SetParser(p)
         /\ IF p.panicked
            THEN pc' = "done" /\ result' = "panic" /\ cur' = cur
            ELSE IF Len(p.blocks) > Len(blocks)
            THEN /\ pc' = "prepare"
                 /\ result' = result
                 /\ cur' = [NoBlock EXCEPT
                               !.target_path = p.blocks[Len(p.blocks)].target_path,
                               !.content = p.blocks[Len(p.blocks)].content]
            ELSE pc' = pc /\ result' = result /\ cur' = cur
    /\ UNCHANGED <<impl, env, genVars, fs, bi, log>>

\* the legacy loop ends with the input: nothing is flushed
LegacyEnd ==
    /\ pc = "parse"
    /\ impl = "curly"
    /\ pc' = "done"
    /\ result' = "ok"
    /\ UNCHANGED <<impl, env, genVars, parserVars, writerVars>>

-----------------------------------------------------------------------------
(* Injector::inject_code_block (prmpt) and the closing branch of the legacy *)
(* loop (curly), one file-system call per step                             *)

Logged(kind) == Append(log, [kind |-> kind, target |-> cur.target_path])

\* the block is over: `return Ok(())` to the loop over code_blocks (prmpt),
\* the next iteration of the loop over lines (curly)
BlockDone ==
    /\ result' = result
    /\ IF impl = "prmpt" THEN pc' = "next" /\ bi' = bi + 1
                          ELSE pc' = "parse" /\ bi' = bi

\* `?`: the error leaves inject_code_block and, through `?`, inject
Propagate ==
    /\ pc' = "done"
    /\ result' = "err"
    /\ bi' = bi

\* the statement after the parent directory is known
AfterPrepare == IF impl = "prmpt" THEN "check" ELSE "write"

\* join, file_name, parent, create_dir_all and canonicalize
Prepare ==
    /\ pc = "prepare"
    /\ LET full == Join(base_path_canon, cur.target_path)
           name == file_name(full)
           parent_dir_for_file == Parent(full)
       IN IF name = None
          THEN /\ log' = Logged("no_filename")
               /\ BlockDone
               /\ UNCHANGED <<fs, cur>>
          ELSE IF parent_dir_for_file = base_path_canon
          THEN /\ cur' = [cur EXCEPT !.dir = base_path_canon, !.name = name[1]]
               /\ pc' = AfterPrepare
               /\ UNCHANGED <<fs, bi, log, result>>
          ELSE \E io_ok \in BOOLEAN :
                 LET made == create_dir_all(fs, parent_dir_for_file)
                     canon == canonicalize(made.fs, parent_dir_for_file)
                 IN IF io_ok /\ made.ok /\ canon.ok
                    THEN /\ fs' = made.fs
                         /\ cur' = [cur EXCEPT !.dir = canon.path, !.name = name[1]]
                         /\ pc' = AfterPrepare
                         /\ UNCHANGED <<bi, log, result>>
                    ELSE /\ Propagate
                         /\ UNCHANGED <<fs, cur, log>>
    /\ UNCHANGED <<impl, env, genVars, parserVars>>

final_file_path_canon == Append(cur.dir, cur.name)

temp_file_path == Append(cur.dir, temp_filename(cur.name))

\* SECURITY CHECK of inject_code_block
IsContained(final, base) == PathStartsWith(final, base)

SecurityCheck ==
    /\ pc = "check"
    /\ IF ~IsContained(final_file_path_canon, base_path_canon)
       THEN /\ log' = Logged("violation")
            /\ BlockDone
       ELSE /\ pc' = "write"
            /\ UNCHANGED <<bi, log, result>>
    /\ UNCHANGED <<impl, env, genVars, parserVars, fs, cur>>

\* the file system after an fs::write that failed: File::create failed
\* (no file), or write_all failed after `n` bytes had reached the file.
\* prmpt: `fs::write(..)?` returns at once; curly: the Err arm removes the file
AfterFailedWrite(created, n) ==
    IF impl = "prmpt" /\ created
    THEN [fs EXCEPT !.files = Put(@, temp_file_path, SubSeq(cur.content, 1, n))]
    ELSE fs

\* fs::write(&temp_file_path, content)
WriteTemp ==
    /\ pc = "write"
    /\ \E created \in BOOLEAN, n \in 0..Len(cur.content) :
         IF created /\ n = Len(cur.content)
         THEN /\ fs' = [fs EXCEPT !.files = Put(@, temp_file_path, cur.content)]
              /\ pc' = "rename"
              /\ UNCHANGED <<bi, log, result>>
         ELSE /\ fs' = AfterFailedWrite(created, n)
              /\ IF impl = "prmpt"
                 THEN Propagate /\ log' = log
                 ELSE BlockDone /\ log' = Logged("write_failed")
    /\ UNCHANGED <<impl, env, genVars, parserVars, cur>>

\* fs::rename(&temp_file_path, &final_file_path_canon); on failure the
\* temporary file is removed
RenameTemp ==
    /\ pc = "rename"
    /\ \E io_ok \in BOOLEAN :
         IF io_ok /\ final_file_path_canon \notin fs.dirs
         THEN /\ fs' = [fs EXCEPT
                          !.files = Put(Drop(@, temp_file_path),
                                        final_file_path_canon, cur.content),
                          !.links = Drop(@, final_file_path_canon)]
              /\ log' = Logged("injected")
              /\ BlockDone
         ELSE /\ fs' = [fs EXCEPT !.files = Drop(@, temp_file_path)]
              /\ IF impl = "prmpt"
                 THEN Propagate /\ log' = log
                 ELSE BlockDone /\ log' = Logged("rename_failed")
    /\ UNCHANGED <<impl, env, genVars, parserVars, cur>>

-----------------------------------------------------------------------------
(* Generator::run, step by step, followed by run_and_write *)

\* Generator::run up to the name of the repository directory, for a
\* configuration without prompts: the output file name is compiled with
\* Pattern::new(..).unwrap(), which panics on a malformed pattern
GenStart ==
    /\ pc = "generate"
    /\ env.generator = "run"
    /\ IF ~IsValidGlob(output_file_name(cfg))
       THEN pc' = "done" /\ result' = "panic" /\ output' = output
       ELSE /\ pc' = "structure"
            /\ result' = result
            /\ output' = SourceDirName \o <<"\n">>
    /\ UNCHANGED <<impl, env, cfg, tree, fi, error_count, errors, jobs,
                   parserVars, writerVars>>

\* the tree listing and the blank line after it
GenStructure ==
    /\ pc = "structure"
    /\ \E ascending \in BOOLEAN :
         output' = output
                     \o process_directory_structure(tree, <<>>,
                            ignore_patterns_for_structure(cfg), <<>>, ascending)
                     \o <<"\n">>
    /\ pc' = "files"
    /\ fi' = 1
    /\ UNCHANGED <<impl, env, cfg, tree, error_count, errors, jobs, result,
                   parserVars, writerVars>>

\* the entries of process_directory_files: the walked files sorted by path
WalkEntries == SortPaths(WalkedFiles(tree, cfg))

\* process_directory_files, one entry of the sorted walk: the block of the
\* file is built in local_output and appended; when the read fails nothing
\* is appended and the count of the file's directory goes up by one
GenFile ==
    /\ pc = "files"
    /\ env.generator = "run"
    /\ \E entries \in {WalkEntries} :
         /\ fi <= Len(entries)
         /\ \E local_output \in {process_file_with_config(tree, entries[fi], cfg,
                                        entries[fi] \notin env.unreadable)} :
              IF local_output.status = "panic"
              THEN /\ pc' = "done" /\ result' = "panic"
                   /\ UNCHANGED <<output, error_count, fi>>
              ELSE /\ IF local_output.status = "err"
                      THEN /\ output' = output
                           /\ error_count' =
                                 Put(error_count, Parent(entries[fi]),
                                     (IF Parent(entries[fi]) \in DOMAIN error_count
                                      THEN error_count[Parent(entries[fi])] ELSE 0) + 1)
                      ELSE /\ output' = output \o local_output.out
                           /\ error_count' = error_count
                   /\ fi' = fi + 1
                   /\ UNCHANGED <<pc, result>>
    /\ UNCHANGED <<impl, env, cfg, tree, errors, jobs, parserVars, writerVars>>

\* Generator::run builds the summary list, one entry per key of the
\* HashMap in the order of its iteration, and returns it with the document;
\* run_and_write writes the document to the output file; in the family
\* "generated" the document is then handed to inject
GenEnd ==
    /\ pc = "files"
    /\ env.generator = "run"
    /\ fi > Len(WalkEntries)
    /\ \E order \in [1..Cardinality(DOMAIN error_count) -> DOMAIN error_count] :
         /\ \A i, j \in DOMAIN order : order[i] = order[j] => i = j
         /\ errors' = [i \in DOMAIN order |->
                         [dir |-> order[i], count |-> error_count[order[i]]]]
    /\ IF env.family \in {"listing", "docs"}
       THEN pc' = "done" /\ result' = "ok"
       ELSE pc' = "start" /\ result' = result
    /\ UNCHANGED <<impl, env, cfg, tree, output, fi, error_count, jobs,
                   parserVars, writerVars>>

-----------------------------------------------------------------------------
(* run of src/src/lib.rs *)

\* run up to the collection of the files: the patterns are compiled (a
\* malformed one panics), the directory name and the tree listing are
\* written and process_directory_files collects the files to render
LibStart ==
    /\ pc = "generate"
    /\ env.generator = "lib"
    /\ LET patterns == lib_ignore_patterns(tree, cfg) IN
       IF \E i \in 1..Len(patterns) : ~IsValidGlob(patterns[i])
       THEN /\ pc' = "done" /\ result' = "panic"
            /\ UNCHANGED <<output, jobs>>
       ELSE /\ pc' = "files" /\ result' = result
            /\ \E ascending \in BOOLEAN :
                 output' = SourceDirName \o <<"\n">>
                             \o lib_process_directory_structure(tree, <<>>, patterns,
                                                                <<>>, ascending)
                             \o <<"\n">>
            /\ jobs' = [rel \in LibFiles(tree, patterns) |-> "todo"]
    /\ UNCHANGED <<impl, env, cfg, tree, fi, error_count, errors,
                   parserVars, writerVars>>

\* one closure of files.par_iter().for_each, first half: process_file
\* fills local_output; on Err the count of the directory is incremented
\* under the lock of error_count
LibRender ==
    /\ pc = "files"
    /\ env.generator = "lib"
    /\ \E rel \in DOMAIN jobs :
         /\ jobs[rel] = "todo"
         /\ jobs' = [jobs EXCEPT ![rel] = "rendered"]
         /\ error_count' =
              IF lib_process_file(tree, rel, rel \notin env.unreadable).ok
              THEN error_count
              ELSE Put(error_count, Parent(rel),
                       (IF Parent(rel) \in DOMAIN error_count
                        THEN error_count[Parent(rel)] ELSE 0) + 1)
    /\ UNCHANGED <<impl, env, cfg, tree, output, fi, errors, pc, result,
                   parserVars, writerVars>>

\* the second half of the closure without the lock of output: the bytes of
\* local_output may land before the last byte another closure pushed
LibAppendUnlocked ==
    /\ pc = "files"
    /\ env.generator = "lib"
    /\ \E rel \in DOMAIN jobs, k \in {Len(output) - 1, Len(output)} :
         /\ jobs[rel] = "rendered"
         /\ jobs' = [jobs EXCEPT ![rel] = "appended"]
         /\ output' = SubSeq(output, 1, k)
                        \o lib_process_file(tree, rel, rel \notin env.unreadable).out
                        \o SubSeq(output, k + 1, Len(output))
    /\ UNCHANGED <<impl, env, cfg, tree, fi, error_count, errors, pc, result,
                   parserVars, writerVars>>

\* the same closure, second half: local_output is appended to the shared
\* document under the lock of output, whether process_file failed or not
LibAppend ==
    /\ pc = "files"
    /\ env.generator = "lib"
    /\ \E rel \in DOMAIN jobs :
         /\ jobs[rel] = "rendered"
         /\ jobs' = [jobs EXCEPT ![rel] = "appended"]
         /\ output' = output
                        \o lib_process_file(tree, rel, rel \notin env.unreadable).out
    /\ UNCHANGED <<impl, env, cfg, tree, fi, error_count, errors, pc, result,
                   parserVars, writerVars>>

\* every closure has returned: run writes the document to the output file
\* and warns once per directory of error_count
LibEnd ==
    /\ pc = "files"
    /\ env.generator = "lib"
    /\ \A rel \in DOMAIN jobs : jobs[rel] = "appended"
    /\ \E order \in [1..Cardinality(DOMAIN error_count) -> DOMAIN error_count] :
         /\ \A i, j \in DOMAIN order : order[i] = order[j] => i = j
         /\ errors' = [i \in DOMAIN order |->
                         [dir |-> order[i], count |-> error_count[order[i]]]]
    /\ pc' = "done"
    /\ result' = "ok"
    /\ UNCHANGED <<impl, env, cfg, tree, output, fi, error_count, jobs,
                   parserVars, writerVars>>

Next ==
    \/ LibStart
    \/ LibRender
    \/ LibAppend
    \/ LibEnd
    \/ GenStart
    \/ GenStructure
    \/ GenFile
    \/ GenEnd
    \/ Start
    \/ ReadLine
    \/ EndOfInput
    \/ NextBlock
    \/ LegacyLine
    \/ LegacyEnd
    \/ Prepare
    \/ SecurityCheck
    \/ WriteTemp
    \/ RenameTemp

Spec == InitInject /\ [][Next]_vars

-----------------------------------------------------------------------------
(* Properties of an inject run *)

OutsideRoot(p) == ~PathStartsWith(p, env.repo_path)

\* the last component of p is the name of a temporary file
IsTempFile(p) == p # <<>> /\ p[Len(p)] # <<>> /\ p[Len(p)][Len(p[Len(p)])] = "~"

\* inject has returned (a panic does not return)
Returned == pc = "done" /\ result \in {"ok", "err"}

\* the root can be canonicalized and the input document can be read
RootAndInputOk == canonicalize(InitFs, env.repo_path).ok /\ env.input_readable

\* C1: no file outside the canonical repository root is ever created or
\* replaced, be it the temporary file or the final file, and a block that
\* resolves outside the root never reaches the write: it is skipped.
C1_NoFileOutsideRoot ==
    /\ \A p \in DOMAIN fs.files :
         OutsideRoot(p) => p \in DOMAIN InitFs.files /\ fs.files[p] = InitFs.files[p]
    /\ pc \in {"write", "rename"} => ~OutsideRoot(final_file_path_canon)

\* C2: the injector with the containment check changes nothing outside the
\* root: no directory outside the root is ever created.
C2_NoDirOutsideRoot ==
    impl = "prmpt" => \A d \in fs.dirs : OutsideRoot(d) => d \in InitFs.dirs

\* C3: when inject has returned, it returned an error exactly when the root
\* could not be canonicalized or the input could not be read, and then
\* nothing was written; otherwise every block of the document was handled.
C3_FatalOnlyForRootOrInput ==
    impl = "prmpt" /\ Returned =>
        /\ result = "err" <=> ~RootAndInputOk
        /\ ~RootAndInputOk => fs = InitFs
        /\ RootAndInputOk => bi = Len(blocks) + 1

\* C4: once a block has been handled, whether it succeeded or its write or
\* its rename failed, no temporary file is left behind and every file holds
\* its previous content or the complete content of a block.
C4_NoTempNoPartial ==
    pc \in {"next", "parse", "done"} =>
        \A p \in DOMAIN fs.files :
            /\ ~IsTempFile(p)
            /\ \/ p \in DOMAIN InitFs.files /\ fs.files[p] = InitFs.files[p]
               \/ \E i \in 1..Len(blocks) : fs.files[p] = blocks[i].content

\* C6: when the input ends inside a fence with a pending path and non-blank
\* content, the block is emitted, trimmed at the end, and handed to the
\* file-writing code.
C6_EofFlushes ==
    [][(/\ pc = "parse" /\ pc' # "parse" /\ nread' = nread
        /\ state = "InCodeBlock"
        /\ current_target_path # None
        /\ Trim(current_code_block) # <<>>)
       => /\ blocks' = Append(blocks, CodeBlock(current_target_path[1],
                                                TrimEnd(current_code_block)))
          /\ pc' = "next"]_vars

-----------------------------------------------------------------------------
(* Properties of the parser, line by line *)

\* the step consumes one more line of the input: line' is that line
ReadsLine == pc = "parse" /\ Len(doc') = Len(doc) + 1

Blank(s) == Trim(s) = <<>>

HasWhiteSpace(s) == \E i \in 1..Len(s) : s[i] \in WhiteSpace

\* the three quoted conventions that announce the path p
Heading(p) == HeadingOpen \o p \o Backtick
Bold(p) == BoldOpen \o p \o BoldClose
Bare(p) == Backtick \o p \o Backtick

\* the non-blank paths p that the line ln announces in one of the conventions
AnnouncedBy(ln) ==
    { p \in { SubSeq(ln, 6, Len(ln) - 1), SubSeq(ln, 4, Len(ln) - 3),
              SubSeq(ln, 2, Len(ln) - 1) } :
        ~Blank(p) /\ ln \in {Heading(p), Bold(p), Bare(p)} }

\* the text that follows the delimiter on a fence line, trimmed
AfterDelimiter(ln) ==
    Trim(SubSeq(TrimStart(ln), Len(Delimiter) + 1, Len(TrimStart(ln))))

\* the text after the last whitespace character of s
LastToken(s) ==
    LET k == CHOOSE i \in 0..Len(s) :
                 /\ i = 0 \/ s[i] \in WhiteSpace
                 /\ \A j \in (i + 1)..Len(s) : s[j] \notin WhiteSpace
    IN SubSeq(s, k + 1, Len(s))

\* the path a fence line carries: none for an empty remainder, a single
\* token only with "/" or ".", the last of several tokens unconditionally
FencePath(ln) ==
    LET r == AfterDelimiter(ln) IN
    IF r = <<>> THEN None
    ELSE IF HasWhiteSpace(r) THEN Some(LastToken(r))
    ELSE IF Contains(r, "/") \/ Contains(r, ".") THEN Some(r)
    ELSE None

\* the document d is: at most one line of PreLines, an announcement of p,
\* a fence that carries no path, the non-blank content line c, a closing fence
Scenario(d, p, c) ==
    \E k \in {0, 1} :
        /\ Len(d) = k + 4
        /\ k = 1 => d[1] \in PreLines
        /\ p \in AnnouncedBy(d[k + 1])
        /\ IsFenceLine(d[k + 2]) /\ FencePath(d[k + 2]) = None
        /\ d[k + 3] = c /\ ~Blank(c) /\ ~IsFenceLine(c)
        /\ IsFenceLine(d[k + 4])

\* the content line of a document that ends content, closing fence
ContentOf(d) == d[Len(d) - 1]

\* the paths p for which the document d is the scenario
ScenarioPaths(d) ==
    IF Len(d) < 4 THEN {}
    ELSE { p \in AnnouncedBy(d[Len(d) - 3]) : Scenario(d, p, ContentOf(d)) }

\* where root/p lies once its parent directories exist: [ok, dir, name]
Resolve(p) ==
    LET full == Join(env.repo_path, p)
        made == create_dir_all(InitFs, Parent(full))
        canon == canonicalize(made.fs, Parent(full))
    IN [ok |-> file_name(full) # None /\ made.ok /\ canon.ok,
        dir |-> canon.path,
        name |-> IF file_name(full) # None THEN file_name(full)[1] ELSE <<>>]

\* the file at root/p holds exactly `content` and its directory exists
WrittenTo(f, p, content) ==
    LET r == Resolve(p) IN
    /\ r.ok
    /\ r.dir \in f.dirs
    /\ Append(r.dir, r.name) \in DOMAIN f.files
    /\ f.files[Append(r.dir, r.name)] = content

\* root/p names a file, not a directory, inside the repository root
InsideRoot(p) ==
    LET r == Resolve(p) IN
    /\ r.ok
    /\ PathStartsWith(Append(r.dir, r.name), env.repo_path)
    /\ Append(r.dir, r.name) \notin InitFs.dirs

\* the run ends with Ok(()) and no write or rename failure was reported
EndsWithoutFailure ==
    /\ pc # "done" /\ pc' = "done" /\ result' = "ok"
    /\ \A i \in 1..Len(log') : log'[i].kind \notin {"write_failed", "rename_failed"}

TakenAsAnnouncement(ln) ==
    \/ StartsWith(ln, HeadingOpen)
    \/ StartsWith(ln, BoldOpen)
    \/ Len(ln) > 3 /\ ~StartsWith(ln, Delimiter)

\* the opening fence line is taken as one: the legacy loop looks for the
\* quoted conventions first, which an indented fence satisfies
TakenAsFence(ln) == impl = "prmpt" \/ ~is_path_line(ln)

C9_FenceLinePath ==
    [][(ReadsLine /\ impl = "prmpt" /\ state = "ExpectingPath" /\ IsFenceLine(line')) =>
          /\ current_target_path' =
                IF FencePath(line') # None THEN FencePath(line')
                                          ELSE current_target_path
          /\ state' = "InCodeBlock"
          /\ current_code_block' = <<>>]_vars

\* after the announcement q, the fence line with the two tokens a and a has
\* been read: the last token replaced the pending path
C9_TwoTokens ==
    /\ impl = "prmpt" /\ pc = "parse"
    /\ doc = << <<"q">>, Delimiter \o <<"a", " ", "a">> >>
    /\ state = "InCodeBlock"
    /\ current_target_path = Some(<<"a">>)
    /\ current_code_block = <<>>

\* C10: in ExpectingPath a line that is neither a fence line nor one of the
\* quoted conventions becomes the pending path, trimmed, exactly when it is
\* non-blank, holds no whitespace character of any kind and does not start
\* with "#" or the delimiter; any other such line changes nothing.
C10_InlinePath ==
    [][(/\ ReadsLine /\ impl = "prmpt" /\ state = "ExpectingPath"
        /\ ~IsFenceLine(line') /\ ~is_path_line(line')) =>
          LET t == Trim(line') IN
          /\ state' = state
          /\ current_target_path' =
                IF /\ t # <<>>
                   /\ ~HasWhiteSpace(t)
                   /\ ~StartsWith(t, <<"#">>)
                   /\ ~StartsWith(t, Delimiter)
                THEN Some(t)
                ELSE current_target_path]_vars

-----------------------------------------------------------------------------
(* Properties of the generated document and of its round trip *)

\* Generator::run has returned its document
Generated == env.family = "generated" /\ pc \notin {"generate", "structure", "files"}
                /\ output # <<>>

\* a line of the tree listing that names the root entry `name`
IsRootTreeLine(l, name) ==
    l \in { <<TEE, DASH, DASH, " ">> \o name, <<ELBOW, DASH, DASH, " ">> \o name }

\* the opening line of the file block of `name`, or of a file below it
IsBlockOf(l, name) ==
    \/ l = config_delimiter(cfg) \o name
    \/ StartsWith(l, config_delimiter(cfg) \o name \o <<"/">>)

\* the document shows the root entry `name`
Shows(text, name) ==
    \E i \in 1..Len(Lines(text)) :
        IsRootTreeLine(Lines(text)[i], name) \/ IsBlockOf(Lines(text)[i], name)

\* C5: once the document Generator::run built from a source tree has been
\* injected into an empty root and inject has returned Ok, every file the
\* generator did not ignore exists at the same relative path under the root
\* with the very content it has in the source tree.
C5_RoundTrip ==
    (env.family = "generated" /\ pc = "done" /\ result = "ok") =>
        \A rel \in WalkedFiles(tree, cfg) :
            /\ env.repo_path \o rel \in DOMAIN fs.files
            /\ fs.files[env.repo_path \o rel] = tree[rel].content

\* C7: whatever the configuration, the generated document shows neither the
\* root file named like the resolved output file, nor the directory .git,
\* nor the file curly.yaml: not as a line of the tree listing and not as a
\* file block.
C7_AlwaysIgnored ==
    Generated =>
        \A name \in {output_file_name(cfg), GitDir, ConfigFile} :
            ~Shows(output, name)

-----------------------------------------------------------------------------
(* Properties of the ignore rules *)

\* a run that only generates has returned its document
Listed == env.family = "listing" /\ pc = "done" /\ result = "ok"

\* the files of the repository
FilesOf(tr) == {rel \in DOMAIN tr : IsFile(tr, rel)}

\* the part of the document before the first file block: the tree listing
ListingPart(text) ==
    LET ls == Lines(text)
        fences == {i \in 1..Len(ls) : StartsWith(ls[i], Delimiter)}
    IN IF fences = {} THEN ls
       ELSE SubSeq(ls, 1, (CHOOSE i \in fences : \A j \in fences : i <= j) - 1)

\* the tree listing has the line of the entry `rel`: its name after a branch
\* mark, indented by four columns per level
TreeShows(text, rel) ==
    LET indent == 4 * (Len(rel) - 1)
        name == rel[Len(rel)]
    IN \E i \in 1..Len(ListingPart(text)) :
         LET l == ListingPart(text)[i] IN
         /\ Len(l) = indent + 4 + Len(name)
         /\ SubSeq(l, indent + 1, Len(l)) \in
                { <<TEE, DASH, DASH, " ">> \o name, <<ELBOW, DASH, DASH, " ">> \o name }

\* the document has the file block of `rel`
BlockShows(text, rel) ==
    \E i \in 1..Len(Lines(text)) : Lines(text)[i] = Delimiter \o RelPathStr(rel)

\* the only rule of the ignore list, when the list has exactly one
OnlyRule == cfg.ignore[1][1]

HasOnlyRule == cfg.ignore # None /\ Len(cfg.ignore[1]) = 1

\* C11: under a single ignore rule that ends in "/" and holds no wildcard,
\* a file of the repository is left out of the tree listing, and of the
\* file blocks, exactly when the rule is a literal prefix of its relative
\* path: d/ leaves out d/a.b and d/s/c.b and keeps e/d/g.b and ds.
C11_SlashRule ==
    (Listed /\ HasOnlyRule /\ EndsWith(OnlyRule, <<"/">>) /\ ~Contains(OnlyRule, "*")) =>
        \A rel \in FilesOf(tree) :
            /\ TreeShows(output, rel) <=> ~StartsWith(RelPathStr(rel), OnlyRule)
            /\ BlockShows(output, rel) <=> ~StartsWith(RelPathStr(rel), OnlyRule)

\* some segment of the relative path equals or glob-matches the rule
SegmentMatches(rel, rule) == \E k \in 1..Len(rel) : GlobMatches(rule, rel[k])

\* C12: under a single ignore rule that holds no "/", a file of the
\* repository is left out of the tree listing exactly when one of the
\* segments of its relative path equals or glob-matches the rule: d leaves
\* out d/a.b, d/s/c.b and e/d/g.b and keeps ds.
C12_SegmentRule ==
    (Listed /\ HasOnlyRule /\ ~Contains(OnlyRule, "/") /\ IsValidGlob(OnlyRule)) =>
        \A rel \in FilesOf(tree) :
            TreeShows(output, rel) <=> ~SegmentMatches(rel, OnlyRule)

\* the rule split at its last "/": the part up to and including it is a
\* literal prefix of the path, the rest of the path holds no "/" and
\* glob-matches the part of the rule after it
SplitRuleExcludes(path, rule) ==
    LET dir_part == SubSeq(rule, 1, LastIndexOf(rule, "/"))
        file_pattern == SubSeq(rule, LastIndexOf(rule, "/") + 1, Len(rule))
        rest == SubSeq(path, Len(dir_part) + 1, Len(path))
    IN /\ StartsWith(path, dir_part)
       /\ ~Contains(rest, "/")
       /\ GlobMatches(file_pattern, rest)

\* the entry lies at the root or its directory is shown in the tree listing
ParentShown(text, rel) ==
    Len(rel) = 1 \/ TreeShows(text, SubSeq(rel, 1, Len(rel) - 1))

\* C13: under a single ignore rule that holds both "/" and "*", an entry
\* whose directory is listed is left out of the tree listing exactly when
\* the rule, split at its last "/", excludes its relative path: d/*.b
\* leaves out d/a.b and keeps d/s/c.b and e/d/g.b.
C13_SplitRule ==
    (Listed /\ HasOnlyRule /\ Contains(OnlyRule, "/") /\ Contains(OnlyRule, "*")) =>
        \A rel \in DOMAIN tree :
            ParentShown(output, rel) =>
                (TreeShows(output, rel) <=> ~SplitRuleExcludes(RelPathStr(rel), OnlyRule))

\* C14: building the rule set never aborts the run, whatever pattern is
\* malformed (a rule of the ignore list, the output file name, a line of
\* .gitignore, a language default): the step that compiles the patterns
\* always goes on to the tree listing and never panics.
C14_MalformedDropped ==
    [][pc = "generate" => (pc' = "structure" /\ result' # "panic")]_vars

-----------------------------------------------------------------------------
(* Properties of the file section: failures, order, parallel renders *)

\* the number of unreadable files directly in the directory `dir`
FailuresIn(dir) == Cardinality({rel \in env.unreadable : Parent(rel) = dir})

\* C15: when the read of some files fails, the generation still returns
\* success; a failed file leaves nothing in the document, neither the
\* opening fence of its block nor an error text; the error count of a
\* directory is the number of its failed files; and the summary list has
\* exactly one entry per directory with a failure, carrying its count.
C15_ReadFailureCounted ==
    (env.family = "listing" /\ pc = "done") =>
        /\ result = "ok"
        /\ \A rel \in env.unreadable : ~BlockShows(output, rel)
        /\ \A i \in 1..Len(Lines(output)) :
               ~StartsWith(Lines(output)[i], Chars("[Error"))
        /\ DOMAIN error_count = {Parent(rel) : rel \in env.unreadable}
        /\ \A dir \in DOMAIN error_count : error_count[dir] = FailuresIn(dir)
        /\ Len(errors) = Cardinality(DOMAIN error_count)
        /\ \A dir \in DOMAIN error_count :
               \E i \in 1..Len(errors) :
                   errors[i] = [dir |-> dir, count |-> error_count[dir]]

\* the line of the document that opens the file block of `rel`
BlockLine(text, rel) ==
    CHOOSE i \in 1..Len(Lines(text)) : Lines(text)[i] = Delimiter \o RelPathStr(rel)

\* C16: the file blocks of the returned document come in ascending order
\* of file path, whatever the order of the directory traversal and the
\* scheduling of the renders were.
C16_BlocksAscending ==
    Listed =>
        \A a, b \in FilesOf(tree) :
            (/\ BlockShows(output, a) /\ BlockShows(output, b)
             /\ a # b /\ PathLeq(a, b))
                => BlockLine(output, a) < BlockLine(output, b)

\* the fragment one file contributes: the local_output of its render (in
\* run.rs nothing when the read failed)
Fragment(rel) ==
    IF env.generator = "lib"
    THEN lib_process_file(tree, rel, rel \notin env.unreadable).out
    ELSE IF rel \in env.unreadable THEN <<>>
    ELSE process_file(tree, rel, config_delimiter(cfg))

\* the file section of the document: what follows the directory name and
\* the tree listing
FileSection(text) ==
    IF Contains(text, BT) THEN SubSeq(text, IndexOf(text, BT), Len(text)) ELSE <<>>

\* the text is a concatenation of whole fragments of distinct files
RECURSIVE WholeFragments(_, _)
WholeFragments(text, files) ==
    \/ text = <<>>
    \/ \E rel \in files :
         /\ Fragment(rel) # <<>>
         /\ StartsWith(text, Fragment(rel))
         /\ WholeFragments(SubSeq(text, Len(Fragment(rel)) + 1, Len(text)),
                           files \ {rel})

\* C17: whatever the interleaving of the renders was, the file section of
\* the final document is a concatenation of whole per-file fragments, each
\* file's fragment contiguous and present at most once, and the final error
\* count of every directory is the number of its files whose render failed.
C17_WholeFragmentsExactCounts ==
    Listed =>
        /\ WholeFragments(FileSection(output), FilesOf(tree))
        /\ error_count = [dir \in {Parent(rel) : rel \in env.unreadable} |->
                             Cardinality({rel \in env.unreadable : Parent(rel) = dir})]

\* a run of lib.rs has returned after two renders of the directory d failed
\* and the fragment of ds was appended before the fragment of d/a.b
C17_FailuresOutOfOrder ==
    /\ Listed
    /\ env.generator = "lib"
    /\ <<Chars("d")>> \in DOMAIN error_count
    /\ error_count[<<Chars("d")>>] = 2
    /\ BlockShows(output, <<Chars("ds")>>)
    /\ BlockShows(output, <<Chars("d"), Chars("a.b")>>)
    /\ BlockLine(output, <<Chars("ds")>>)
          < BlockLine(output, <<Chars("d"), Chars("a.b")>>)

-----------------------------------------------------------------------------
(* Properties of the configured delimiter *)

\* the file blocks of Generator::run for the sorted walk `entries`, fenced
\* with `delimiter`
RECURSIVE FileBlocks(_, _, _)
FileBlocks(tr, entries, delimiter) ==
    IF entries = <<>> THEN <<>>
    ELSE process_file(tr, Head(entries), delimiter)
            \o FileBlocks(tr, Tail(entries), delimiter)

\* the document Generator::run builds from the same tree and the same
\* configuration but with the default delimiter
DefaultDocument ==
    SubSeq(output, 1,
           Len(output) - Len(FileBlocks(tree, WalkEntries, config_delimiter(cfg))))
        \o FileBlocks(tree, WalkEntries, Delimiter)

\* InjectionParser::parse over a whole document
RECURSIVE ParseFrom(_, _)
ParseFrom(p, lns) ==
    IF lns = <<>> THEN parse_eof(p)
    ELSE ParseFrom(parse_line(p, Head(lns)), Tail(lns))

\* C18: a document generated with a configured delimiter is decoded by the
\* injector into the same (path, content) blocks as the document generated
\* from the same tree with the default delimiter of three backticks.
C18_ConfiguredDelimiter ==
    (env.family = "generated" /\ pc = "done" /\ result = "ok"
       /\ cfg.delimiter # None)
        => blocks = ParseFrom(NewParser, Lines(DefaultDocument)).blocks

-----------------------------------------------------------------------------
(* Properties of announced paths that look absolute *)

\* the announced path without its leading separators
RECURSIVE StripSeparators(_)
StripSeparators(p) ==
    IF IsAbsolute(p) THEN StripSeparators(Tail(p)) ELSE p

\* C19: a block whose announced path begins with a separator is treated as
\* relative: when inject has returned Ok the block was not rejected, and the
\* file at root/path (the path without its leading separators) holds the
\* content of a block of the document.
C19_AbsoluteLookingIsRelative ==
    (impl = "prmpt" /\ pc = "done" /\ result = "ok") =>
        \A i \in 1..Len(blocks) :
            LET p == blocks[i].target_path IN
            (IsAbsolute(p) /\ InsideRoot(StripSeparators(p))) =>
                /\ \A k \in 1..Len(log) :
                      ~(log[k].kind = "violation" /\ log[k].target = p)
                /\ \E j \in 1..Len(blocks) :
                      WrittenTo(fs, StripSeparators(p), blocks[j].content)

-----------------------------------------------------------------------------
(* Properties of the docs-only mode *)

\* the file is rendered in signature-only mode: the docs-only flag is set,
\* the language is Python, the file is a .py file and no docs-ignore
\* pattern matches it
DocsOnlyMode(rel) ==
    /\ cfg.docs_comments_only = Some(TRUE)
    /\ cfg.language = Some(Chars("python"))
    /\ rel[Len(rel)] = Chars("a.py")
    /\ cfg.docs_ignore = None

\* a statement of the source is a function or a class definition
HasDefinition(src) ==
    \E i \in 1..Len(Lines(src)) :
        StartsWith(Lines(src)[i], Chars("def ")) \/ StartsWith(Lines(src)[i], Chars("class "))

\* the first statement of the source, comments apart, is a string literal
HasModuleDocstring(src) ==
    \E i \in 1..Len(Lines(src)) :
        /\ Lines(src)[i][1] = QUOTE
        /\ \A j \in 1..(i - 1) : Lines(src)[j][1] = "#"

\* C20: in docs-only mode the step that renders a source file without a
\* function or class definition and without a module docstring appends
\* nothing to the document.
C20_DocsOnlyEmptiness ==
    [][(/\ pc = "files" /\ env.family = "docs" /\ fi <= Len(WalkEntries)
        /\ DocsOnlyMode(WalkEntries[fi])
        /\ ~HasDefinition(tree[WalkEntries[fi]].content)
        /\ ~HasModuleDocstring(tree[WalkEntries[fi]].content))
          => output' = output]_vars

\* the block of signature-only mode: the signatures between two fences, or
\* nothing when there are none
SignatureBlock(rel) ==
    LET signatures == extract_python_signatures(tree[rel].content) IN
    IF Trim(signatures) = <<>> THEN <<>>
    ELSE config_delimiter(cfg) \o RelPathStr(rel) \o <<"\n">> \o signatures
            \o <<"\n">> \o config_delimiter(cfg) \o <<"\n", "\n">>

\* C21: a file is rendered in signature-only mode exactly when the docs-only
\* flag is set, the language is Python, the file is a .py file and no
\* docs-ignore pattern matches it; every other file is rendered in default
\* mode, with its full content between two fences.
C21_SignatureModeIff ==
    [][(pc = "files" /\ env.family = "docs" /\ fi <= Len(WalkEntries)) =>
          output' = output \o
              (IF DocsOnlyMode(WalkEntries[fi])
               THEN SignatureBlock(WalkEntries[fi])
               ELSE process_file(tree, WalkEntries[fi], config_delimiter(cfg)))]_vars

-----------------------------------------------------------------------------
(* Properties of the notebook branch and of panics *)

Notebook == <<Chars("n.ipynb")>>

\* the notebook has the expected array of cells
HasCells(src) ==
    src \in { Chars("{\"cells\":[]}"),
              Chars("{\"cells\":[{\"cell_type\":\"code\",\"source\":[\"y\"]}]}") }

\* C22: the step that renders a notebook that cannot be read, is no valid
\* JSON or is JSON without the array of cells appends nothing to the document
\* and leaves every error count as it is.
C22_BrokenNotebookSilent ==
    [][(/\ pc = "files" /\ env.family = "docs" /\ fi <= Len(WalkEntries)
        /\ WalkEntries[fi] = Notebook
        /\ (Notebook \in env.unreadable \/ ~HasCells(tree[Notebook].content)))
          => (output' = output /\ error_count' = error_count)]_vars

\* C23: no step that renders a file ends the run with a panic.
C23_RenderNeverPanics ==
    [][(pc = "files" /\ env.generator = "run") => result' # "panic"]_vars

-----------------------------------------------------------------------------
(* Properties of the parser's handling of blocks *)

\* the step reads a delimiter line while a block is open
ClosesBlock == ReadsLine /\ state = "InCodeBlock" /\ IsFenceLine(line')

\* C24: a delimiter line read in InCodeBlock emits a block exactly when a
\* path is pending and the buffer is not blank, the content being the buffer
\* without its trailing whitespace; in every case the pending path becomes
\* None, the buffer becomes empty and the state becomes ExpectingPath.
C24_ClosingFence ==
    [][ClosesBlock =>
          /\ blocks' = IF current_target_path # None /\ Trim(current_code_block) # <<>>
                       THEN Append(blocks, CodeBlock(current_target_path[1],
                                                     TrimEnd(current_code_block)))
                       ELSE blocks
          /\ current_target_path' = None
          /\ current_code_block' = <<>>
          /\ state' = "ExpectingPath"]_vars

\* the step reads, in ExpectingPath, a line that is_path_line accepts
ReadsAnnouncement ==
    /\ ReadsLine
    /\ impl = "prmpt"
    /\ state = "ExpectingPath"
    /\ ~IsFenceLine(line')
    /\ is_path_line(line')

\* C25: a line accepted as a quoted path announcement never aborts the
\* parse, even when its markers enclose nothing or overlap; a value that is
\* blank sets the pending path to None, and the empty string is never
\* recorded as a path.
C25_DegenerateAnnouncement ==
    [][ReadsAnnouncement =>
          /\ result' # "panic"
          /\ (~extract_path_panics(line') /\ Blank(extract_path(line')))
                => current_target_path' = None
          /\ current_target_path' # Some(<<>>)]_vars

\* what a line read inside a block does when it is content: it goes to the
\* end of the buffer with its newline, and nothing else of the parser changes
Appended ==
    /\ current_code_block' = current_code_block \o line' \o <<"\n">>
    /\ current_target_path' = current_target_path
    /\ state' = state
    /\ blocks' = blocks

-----------------------------------------------------------------------------
(* Properties of the loop over the parsed blocks *)

\* the steps of inject_code_block
HandlingBlock == pc \in {"prepare", "check", "write", "rename"}

\* the file root/p names and whether it is a file inside the root
Target(p) ==
    [inside |-> InsideRoot(p), location |-> Append(Resolve(p).dir, Resolve(p).name)]

\* the files are as the first k blocks of the document leave them: of the
\* blocks for one file inside the root, the last one gave the file its content
FirstBlocksWritten(k) ==
    \E targets \in {[i \in 1..k |-> Target(blocks[i].target_path)]} :
        \A i \in 1..k :
            (/\ targets[i].inside
             /\ \A j \in (i + 1)..k :
                   targets[j].inside => targets[j].location # targets[i].location)
                => /\ targets[i].location \in DOMAIN fs.files
                   /\ fs.files[targets[i].location] = blocks[i].content

\* the loop over the blocks is between two blocks or has ended with Ok(())
BetweenBlocks ==
    impl = "prmpt" /\ bi > 0 /\ (pc = "next" \/ (pc = "done" /\ result = "ok"))

\* between two blocks, and at the end of a successful inject, the blocks
\* before the index bi have been written
WrittenSoFar == BetweenBlocks => FirstBlocksWritten(bi - 1)

\* the block being handled is the one at the index bi of the document
CurrentIsNext ==
    (impl = "prmpt" /\ HandlingBlock)
        => /\ bi \in 1..Len(blocks)
           /\ cur.target_path = blocks[bi].target_path
           /\ cur.content = blocks[bi].content

\* the blocks handled so far are the first bi - 1 blocks of the document,
\* one after the other
HandledInOrder ==
    ((impl = "prmpt" /\ HandlingBlock) \/ BetweenBlocks)
        => /\ Len(log) = bi - 1
           /\ \A i \in 1..Len(log) : log[i].target = blocks[i].target_path

\* C27: the blocks are handled one at a time in the order of the document,
\* each one wholly before the next, so that between two blocks and after a
\* successful inject every file holds the content of the last block written
\* to it so far.
C27_DocumentOrder == CurrentIsNext /\ HandledInOrder /\ WrittenSoFar

\* two blocks for f were injected, x first and y second: f holds y
C27_LastBlockWins ==
    /\ impl = "prmpt" /\ pc = "done" /\ result = "ok"
    /\ doc = << Delimiter \o <<"a", " ", "f">>, <<"x">>, Delimiter,
                Delimiter \o <<"a", " ", "f">>, <<"y">> >>
    /\ blocks = << CodeBlock(<<"f">>, <<"x">>), CodeBlock(<<"f">>, <<"y">>) >>
    /\ log = << [kind |-> "injected", target |-> <<"f">>],
                [kind |-> "injected", target |-> <<"f">>] >>
    /\ fs.files[Append(RepoRoot, F)] = <<"y">>

-----------------------------------------------------------------------------
(* Properties of the parse of a generated document *)

\* the opening fence line process_file writes for the file rel
SerializedFence(rel) == Delimiter \o RelPathStr(rel)

\* C28: when the parser reads, in ExpectingPath, the opening fence line the
\* serializer wrote for a file, the pending path becomes the relative path
\* of that file, whatever path was pending before.
C28_FencePathAttached ==
    [][(/\ ReadsLine
        /\ env.family = "generated"
        /\ config_delimiter(cfg) = Delimiter
        /\ state = "ExpectingPath")
          => \A rel \in DOMAIN tree :
                line' = SerializedFence(rel)
                    => current_target_path' = Some(RelPathStr(rel))]_vars

-----------------------------------------------------------------------------
(* Properties of the blocks InjectionParser::parse returns *)

\* the fence lines of d that open a block: the first, the third, ...
OpeningFences(d) ==
    {i \in 1..Len(d) :
        /\ IsFenceLine(d[i])
        /\ Cardinality({j \in 1..(i - 1) : IsFenceLine(d[j])}) % 2 = 0}

\* a block with a path and a content that are not blank, the content
\* without trailing whitespace
WellFormed(b) ==
    /\ ~Blank(b.target_path)
    /\ ~Blank(b.content)
    /\ TrimEnd(b.content) = b.content

\* the step flushes the block at the end of the input
FlushesAtEnd == pc = "parse" /\ pc' = "next"

\* C29: every block InjectionParser::parse has emitted has a path that is
\* not blank and a content that is not blank and has no trailing
\* whitespace; a block is added, at the end, only by a closing fence or by
\* the end of the input, and there are never more blocks than opening
\* fences read.
C29_EmittedBlocks ==
    [][impl = "prmpt" =>
          /\ \A i \in 1..Len(blocks') : WellFormed(blocks'[i])
          /\ Len(blocks') <= Cardinality(OpeningFences(doc'))
          /\ \/ blocks' = blocks
             \/ /\ ClosesBlock \/ FlushesAtEnd
                /\ Len(blocks') = Len(blocks) + 1
                /\ SubSeq(blocks', 1, Len(blocks)) = blocks]_vars

\* the parse of the blocks x for f and y for d/f, the second one ended by
\* the end of the input, returned the two blocks in that order
C29_TwoBlocks ==
    /\ impl = "prmpt" /\ pc = "next" /\ bi = 1
    /\ doc = << Delimiter \o <<"a", " ", "f">>, <<"x">>, Delimiter,
                Delimiter \o <<"a", " ", "d", "/", "f">>, <<"y">> >>
    /\ blocks = << CodeBlock(<<"f">>, <<"x">>), CodeBlock(<<"d", "/", "f">>, <<"y">>) >>

-----------------------------------------------------------------------------
(* The two injectors compared *)

\* every fence of the document d is closed
AllClosed(d) == Cardinality({i \in 1..Len(d) : IsFenceLine(d[i])}) % 2 = 0

\* C30: on a document whose fences are all closed, the blocks the legacy
\* loop has handed to its file-writing code are, in the same order, the
\* blocks InjectionParser::parse returns for that document.
C30_SameBlocks ==
    (impl = "curly" /\ pc = "parse" /\ AllClosed(doc))
        => blocks = ParseFrom(NewParser, doc).blocks

====
